---- MODULE Spec2Model ----
(***************************************************************************)
(* A model of the SoulForge core (digital-companion-core):                  *)
(*   MoodEngine        src/src/mood-engine.ts                               *)
(*   PersonalitySystem src/src/personality-system.ts (lines 1-299)          *)
(*   MemorySystem      src/src/personality-system.ts (lines 301-536)        *)
(*   Soul              src/src/soul.ts                                      *)
(*                                                                         *)
(* Numbers.  The code computes on IEEE doubles.  Every coefficient of the   *)
(* mood engine (0.3, 0.2, 0.25, 0.4, 0.15, 0.1, 0.05) is a multiple of      *)
(* 1/20, so with integer intensities and minutes every emotional scalar is  *)
(* a multiple of 1/20: the model stores such a quantity x as the integer    *)
(* x * Unit and computes exactly (rounding of doubles is not modelled).     *)
(***************************************************************************)
EXTENDS Integers, Sequences, FiniteSets, TLC

Unit == 20
R(x) == x * Unit

Min(a, b) == IF a < b THEN a ELSE b
Max(a, b) == IF a > b THEN a ELSE b

(* Array.prototype.slice(-n): the last n elements *)
SliceLast(s, n) == IF Len(s) <= n THEN s ELSE SubSeq(s, Len(s) - n + 1, Len(s))
(* Array.prototype.slice(0, n): the first n elements *)
SliceFirst(s, n) == IF Len(s) <= n THEN s ELSE SubSeq(s, 1, n)

(***************************************************************************)
(*                               MoodEngine                                *)
(***************************************************************************)
Moods ==
  {"joyful", "content", "neutral", "melancholic", "anxious",
   "excited", "calm", "frustrated", "curious", "contemplative"}

StimulusTypes == {"positive", "negative", "neutral"}

(* initializeMoodTransitions: the static adjacency table (never read by the code) *)
moodTransitionRules ==
  [m \in Moods |->
     CASE m = "joyful"        -> {"content", "excited", "neutral"}
       [] m = "content"       -> {"joyful", "calm", "neutral"}
       [] m = "neutral"       -> {"content", "curious", "contemplative"}
       [] m = "melancholic"   -> {"contemplative", "neutral", "frustrated"}
       [] m = "anxious"       -> {"frustrated", "neutral", "contemplative"}
       [] m = "excited"       -> {"joyful", "content", "anxious"}
       [] m = "calm"          -> {"content", "contemplative", "neutral"}
       [] m = "frustrated"    -> {"anxious", "melancholic", "neutral"}
       [] m = "curious"       -> {"excited", "content", "neutral"}
       [] m = "contemplative" -> {"calm", "melancholic", "neutral"}]

(* mutant of calculateMoodFromState: the first two rules in the other order *)
calculateMoodFromState_lowEnergyFirst(energy, stress, confidence, socialBattery) ==
  IF energy < R(30) THEN (IF stress > R(40) THEN "melancholic" ELSE "contemplative")
  ELSE IF stress > R(70) THEN (IF energy > R(60) THEN "anxious" ELSE "frustrated")
  ELSE IF energy > R(80) /\ stress < R(30)
       THEN (IF confidence > R(70) THEN "joyful" ELSE "excited")
  ELSE IF confidence > R(70) /\ stress < R(40)
       THEN (IF energy > R(60) THEN "content" ELSE "calm")
  ELSE IF socialBattery > R(70) /\ confidence > R(50) /\ confidence < R(80)
       THEN "curious"
  ELSE "neutral"

calculateMoodFromState(energy, stress, confidence, socialBattery) ==
  IF stress > R(70) THEN (IF energy > R(60) THEN "anxious" ELSE "frustrated")
  ELSE IF energy < R(30) THEN (IF stress > R(40) THEN "melancholic" ELSE "contemplative")
  ELSE IF energy > R(80) /\ stress < R(30)
       THEN (IF confidence > R(70) THEN "joyful" ELSE "excited")
  ELSE IF confidence > R(70) /\ stress < R(40)
       THEN (IF energy > R(60) THEN "content" ELSE "calm")
  ELSE IF socialBattery > R(70) /\ confidence > R(50) /\ confidence < R(80)
       THEN "curious"
  ELSE "neutral"

(* the classification of an EmotionalState record *)
classify(es) ==
  calculateMoodFromState(es.energy, es.stress, es.confidence, es.socialBattery)

(* mutant of moveToward: the step is taken without stopping at the target *)
moveToward_pastTarget(current, target, step) ==
  IF current < target THEN current + step
  ELSE IF current > target THEN current - step
  ELSE current

moveToward(current, target, step) ==
  IF current < target THEN Min(target, current + step)
  ELSE IF current > target THEN Max(target, current - step)
  ELSE current

MoodHistoryCap == 200
MoodHistoryKeep == 100
ThoughtCap == 100
ThoughtKeep == 50

recordMoodChange(moodHistory, mood, now) ==
  LET h == Append(moodHistory, [mood |-> mood, timestamp |-> now])
  IN  IF Len(h) > MoodHistoryCap THEN SliceLast(h, MoodHistoryKeep) ELSE h

(* mutant of addThought: the trim keeps the oldest thoughts *)
addThought_keepOldest(thoughts, content, type, now) ==
  LET t == Append(thoughts, [content |-> content, type |-> type, timestamp |-> now])
  IN  IF Len(t) > 100 THEN SubSeq(t, 1, 50) ELSE t

(* addThought: the thought buffer after the push and the trim; the Thought
   returned by the code is the last element of the pushed buffer *)
newThought(content, type, now) ==
  [content |-> content, type |-> type, timestamp |-> now]

addThought(thoughts, content, type, now) ==
  LET t == Append(thoughts, newThought(content, type, now))
  IN  IF Len(t) > ThoughtCap THEN SliceLast(t, ThoughtKeep) ELSE t

(* new MoodEngine(initialMood) *)
MoodEngine_new(initialMood, now) ==
  [emotionalState |-> [mood |-> initialMood, energy |-> R(70), stress |-> R(20),
                       confidence |-> R(60), socialBattery |-> R(80)],
   thoughts    |-> << >>,
   moodHistory |-> recordMoodChange(<< >>, initialMood, now)]

(* mutant of applyStimulus: the positive branch without its upper clamps *)
applyStimulus_noUpperClamp(es, type, intensity) ==
  CASE type = "positive" ->
         [es EXCEPT !.energy     = @ + (R(intensity) * 3) \div 10,
                    !.stress     = Max(0, @ - R(intensity) \div 5),
                    !.confidence = @ + R(intensity) \div 4]
    [] type = "negative" ->
         [es EXCEPT !.energy     = Max(0, @ - R(intensity) \div 5),
                    !.stress     = Min(R(100), @ + (R(intensity) * 2) \div 5),
                    !.confidence = Max(0, @ - (R(intensity) * 3) \div 20)]
    [] OTHER ->
         [es EXCEPT !.energy     = moveToward(@, R(70), R(5)),
                    !.stress     = moveToward(@, R(20), R(5)),
                    !.confidence = moveToward(@, R(60), R(3))]

(* the switch of updateMood: the emotional state after the stimulus, mood untouched *)
applyStimulus(es, type, intensity) ==
  CASE type = "positive" ->
         [es EXCEPT !.energy     = Min(R(100), @ + (R(intensity) * 3) \div 10),
                    !.stress     = Max(0, @ - R(intensity) \div 5),
                    !.confidence = Min(R(100), @ + R(intensity) \div 4)]
    [] type = "negative" ->
         [es EXCEPT !.energy     = Max(0, @ - R(intensity) \div 5),
                    !.stress     = Min(R(100), @ + (R(intensity) * 2) \div 5),
                    !.confidence = Max(0, @ - (R(intensity) * 3) \div 20)]
    [] OTHER ->
         [es EXCEPT !.energy     = moveToward(@, R(70), R(5)),
                    !.stress     = moveToward(@, R(20), R(5)),
                    !.confidence = moveToward(@, R(60), R(3))]

(* mutant of reclassify: the new mood is taken only along an edge of the
   adjacency table and is neutral otherwise *)
reclassify_alongTransitions(me, es, now, withThought) ==
  LET target == classify(es)
      newMood == IF target = es.mood \/ target \in moodTransitionRules[es.mood]
                 THEN target ELSE "neutral"
  IN  IF newMood # es.mood
      THEN [emotionalState |-> [es EXCEPT !.mood = newMood],
            moodHistory    |-> recordMoodChange(me.moodHistory, newMood, now),
            thoughts       |-> IF withThought
                               THEN addThought(me.thoughts, <<"mood_change", newMood, 0>>,
                                               "emotion", now)
                               ELSE me.thoughts]
      ELSE [me EXCEPT !.emotionalState = es]

(* the reclassification at the end of updateMood and simulateTimePassage *)
reclassify(me, es, now, withThought) ==
  LET newMood == classify(es)
  IN  IF newMood # es.mood
      THEN [emotionalState |-> [es EXCEPT !.mood = newMood],
            moodHistory    |-> recordMoodChange(me.moodHistory, newMood, now),
            thoughts       |-> IF withThought
                               THEN addThought(me.thoughts, <<"mood_change", newMood, 0>>,
                                               "emotion", now)
                               ELSE me.thoughts]
      ELSE [me EXCEPT !.emotionalState = es]

(* mutant of MoodEngine_updateMood: a mood change is recorded without a thought *)
MoodEngine_updateMood_noThought(me, type, intensity, now) ==
  LET es == applyStimulus(me.emotionalState, type, intensity)
  IN  IF classify(es) # es.mood
      THEN [emotionalState |-> [es EXCEPT !.mood = classify(es)],
            moodHistory    |-> recordMoodChange(me.moodHistory, classify(es), now),
            thoughts       |-> me.thoughts]
      ELSE [me EXCEPT !.emotionalState = es]

MoodEngine_updateMood(me, type, intensity, now) ==
  reclassify(me, applyStimulus(me.emotionalState, type, intensity), now, TRUE)

MoodEngine_adjustSocialBattery(me, change) ==
  [me EXCEPT !.emotionalState.socialBattery = Max(0, Min(R(100), @ + R(change)))]

(* mutant of decay: time alone drains the social battery *)
decay_drainsBattery(es, minutes) ==
  [es EXCEPT !.energy        = Max(0, @ - R(minutes) \div 10),
             !.stress        = Max(0, @ - R(minutes) \div 20),
             !.socialBattery = Max(0, @ - R(minutes) \div 5)]

(* mutant of decay: time relieves no stress *)
decay_noStressRelief(es, minutes) ==
  [es EXCEPT !.energy        = Max(0, @ - R(minutes) \div 10),
             !.socialBattery = Min(R(100), @ + R(minutes) \div 5)]

decay(es, minutes) ==
  [es EXCEPT !.energy        = Max(0, @ - R(minutes) \div 10),
             !.stress        = Max(0, @ - R(minutes) \div 20),
             !.socialBattery = Min(R(100), @ + R(minutes) \div 5)]

(* mutant of MoodEngine_simulateTimePassage: the decay without the mood check *)
MoodEngine_simulateTimePassage_noMoodCheck(me, minutes, now) ==
  [me EXCEPT !.emotionalState = decay(@, minutes)]

MoodEngine_simulateTimePassage(me, minutes, now) ==
  reclassify(me, decay(me.emotionalState, minutes), now, FALSE)

(***************************************************************************)
(*                              MemorySystem                               *)
(*                                                                         *)
(* Memory objects live in a heap (a sequence of records, a reference being *)
(* an index into it); the primary index, the                               *)
(* short-term list and the long-term list hold references to them, as the  *)
(* Map and the two arrays of the code do.  The index is a Map: a sequence  *)
(* of references in insertion order, one per key, the key of an entry      *)
(* being the id of the object it holds.                                    *)
(***************************************************************************)
PromotionThreshold == 60
DefaultShortTermCapacity == 50
DefaultLongTermCapacity == 1000

newMemory(id, content, type, importance, emotional_weight, now, tags) ==
  [id |-> id, content |-> content, type |-> type, importance |-> importance,
   emotional_weight |-> emotional_weight, timestamp |-> now, tags |-> tags,
   associations |-> << >>]

(* new MemorySystem(shortTermCapacity, longTermCapacity) *)
MemorySystem_new(shortTermCapacity, longTermCapacity) ==
  [memories |-> << >>, shortTermMemory |-> << >>, longTermMemory |-> << >>,
   maxShortTermSize |-> shortTermCapacity, maxLongTermSize |-> longTermCapacity]

(* Map.has / Map.get / Map.set / Map.delete on the index *)
MapHas(h, m, id) == \E i \in 1..Len(m) : h[m[i]].id = id
MapGet(h, m, id) == m[CHOOSE i \in 1..Len(m) : h[m[i]].id = id]
MapSet(h, m, id, ref) ==
  IF MapHas(h, m, id)
  THEN [i \in 1..Len(m) |-> IF h[m[i]].id = id THEN ref ELSE m[i]]
  ELSE Append(m, ref)
MapDelete(h, m, id) == SelectSeq(m, LAMBDA r : h[r].id # id)

(* Array.prototype.splice(n): what stays and what is removed *)
SpliceKeep(s, n) == SliceFirst(s, n)
SpliceRemoved(s, n) == IF Len(s) <= n THEN << >> ELSE SubSeq(s, n + 1, Len(s))

(* mutant of promoteOrForget: a record below the threshold leaves the list
   but is not deleted from the index *)
RECURSIVE promoteOrForget_noDelete(_, _, _)
promoteOrForget_noDelete(h, ms, toConsolidate) ==
  IF toConsolidate = << >> THEN ms
  ELSE LET memory == Head(toConsolidate)
           next == IF h[memory].importance >= R(PromotionThreshold)
                   THEN [ms EXCEPT !.longTermMemory = <<memory>> \o @]
                   ELSE ms
       IN  promoteOrForget_noDelete(h, next, Tail(toConsolidate))

(* mutant of promoteOrForget: every removed record is promoted *)
RECURSIVE promoteOrForget_promoteAll(_, _, _)
promoteOrForget_promoteAll(h, ms, toConsolidate) ==
  IF toConsolidate = << >> THEN ms
  ELSE promoteOrForget_promoteAll(h,
         [ms EXCEPT !.longTermMemory = <<Head(toConsolidate)>> \o @],
         Tail(toConsolidate))

(* mutant of promoteOrForget: a promoted record goes to the end of the
   long-term list *)
RECURSIVE promoteOrForget_pushPromoted(_, _, _)
promoteOrForget_pushPromoted(h, ms, toConsolidate) ==
  IF toConsolidate = << >> THEN ms
  ELSE LET memory == Head(toConsolidate)
           next == IF h[memory].importance >= R(PromotionThreshold)
                   THEN [ms EXCEPT !.longTermMemory = Append(@, memory)]
                   ELSE [ms EXCEPT !.memories = MapDelete(h, @, h[memory].id)]
       IN  promoteOrForget_pushPromoted(h, next, Tail(toConsolidate))

(* the forEach over toConsolidate (personality-system.ts:495-502) *)
RECURSIVE promoteOrForget(_, _, _)
promoteOrForget(h, ms, toConsolidate) ==
  IF toConsolidate = << >> THEN ms
  ELSE LET memory == Head(toConsolidate)
           next == IF h[memory].importance >= R(PromotionThreshold)
                   THEN [ms EXCEPT !.longTermMemory = <<memory>> \o @]
                   ELSE [ms EXCEPT !.memories = MapDelete(h, @, h[memory].id)]
       IN  promoteOrForget(h, next, Tail(toConsolidate))

(* the forEach over forgotten (personality-system.ts:508-510) *)
RECURSIVE forgetAll(_, _, _)
forgetAll(h, memories, forgotten) ==
  IF forgotten = << >> THEN memories
  ELSE forgetAll(h, MapDelete(h, memories, h[Head(forgotten)].id), Tail(forgotten))

consolidateShortTerm(h, ms) ==
  IF Len(ms.shortTermMemory) > ms.maxShortTermSize
  THEN promoteOrForget(h,
         [ms EXCEPT !.shortTermMemory = SpliceKeep(@, ms.maxShortTermSize)],
         SpliceRemoved(ms.shortTermMemory, ms.maxShortTermSize))
  ELSE ms

(* mutant of consolidateLongTerm: the long-term list is never cut *)
consolidateLongTerm_never(h, ms) == ms

consolidateLongTerm(h, ms) ==
  IF Len(ms.longTermMemory) > ms.maxLongTermSize
  THEN [ms EXCEPT !.longTermMemory = SpliceKeep(@, ms.maxLongTermSize),
                  !.memories = forgetAll(h, @,
                                 SpliceRemoved(ms.longTermMemory, ms.maxLongTermSize))]
  ELSE ms

consolidateMemories(h, ms) == consolidateLongTerm(h, consolidateShortTerm(h, ms))

(* store, lines 323-332: the heap with the new object, whose reference is
   Len(h) + 1 and whose id (uuidv4) is fresh: the model uses the reference *)
storeHeap(h, content, type, importance, emotional_weight, now, tags) ==
  Append(h, newMemory(Len(h) + 1, content, type, importance, emotional_weight, now, tags))

(* store, lines 334-340: set, unshift and consolidation of the object at ref *)
MemorySystem_store(h, ms, ref) ==
  consolidateMemories(h,
    [ms EXCEPT !.memories = MapSet(h, @, h[ref].id, ref),
               !.shortTermMemory = <<ref>> \o @])

(* export: Array.from(this.memories.values()), the objects themselves *)
MemorySystem_export(ms) == ms.memories

(* mutant of importEach: every imported record is pushed onto the long-term
   list *)
RECURSIVE importEach_allLongTerm(_, _, _)
importEach_allLongTerm(h, ms, memories) ==
  IF memories = << >> THEN ms
  ELSE LET memory == Head(memories)
           set == [ms EXCEPT !.memories = MapSet(h, @, h[memory].id, memory)]
           next == [set EXCEPT !.longTermMemory = Append(@, memory)]
       IN  importEach_allLongTerm(h, next, Tail(memories))

(* the forEach of import (personality-system.ts:525-532) *)
RECURSIVE importEach(_, _, _)
importEach(h, ms, memories) ==
  IF memories = << >> THEN ms
  ELSE LET memory == Head(memories)
           set == [ms EXCEPT !.memories = MapSet(h, @, h[memory].id, memory)]
           next == IF h[memory].importance >= R(PromotionThreshold)
                   THEN [set EXCEPT !.longTermMemory = Append(@, memory)]
                   ELSE [set EXCEPT !.shortTermMemory = Append(@, memory)]
       IN  importEach(h, next, Tail(memories))

MemorySystem_import(h, ms, memories) ==
  consolidateMemories(h, importEach(h, ms, memories))

(*------------------------------- recall ----------------------------------*)
(* A text is the sequence of its characters.  A relevance score is stored  *)
(* as the integer score * ScoreUnit: with time in seconds, daysSince is a   *)
(* multiple of 1/86400 and importance * 0.5 a multiple of 1/40.             *)
SecondsPerDay == 86400
ScoreUnit == SecondsPerDay

(* String.prototype.toLowerCase, on the letters used *)
lowerChar(c) ==
  CASE c = "A" -> "a"
    [] c = "C" -> "c"
    [] c = "D" -> "d"
    [] c = "T" -> "t"
    [] OTHER   -> c
lowerCase(s) == [i \in 1..Len(s) |-> lowerChar(s[i])]

(* String.prototype.includes *)
includes(s, q) ==
  \E i \in 0..(Len(s) - Len(q)) : \A j \in 1..Len(q) : s[i + j] = q[j]

(* the number of tags that contain the query, both lowercased *)
tagMatches(tags, query) ==
  Cardinality({i \in 1..Len(tags) : includes(lowerCase(tags[i]), lowerCase(query))})

(* mutant of calculateRelevance: the content match adds nothing *)
calculateRelevance_noContentMatch(memory, query, now) ==
  LET daysSince == now - memory.timestamp
  IN  50 * ScoreUnit * tagMatches(memory.tags, query)
      + memory.importance * (ScoreUnit \div (2 * Unit))
      + Max(0, 20 * ScoreUnit - daysSince)

(* calculateRelevance(memory, query) at Date.now() = now *)
calculateRelevance(memory, query, now) ==
  LET daysSince == now - memory.timestamp
  IN  (IF includes(lowerCase(memory.content), lowerCase(query)) THEN 100 * ScoreUnit ELSE 0)
      + 50 * ScoreUnit * tagMatches(memory.tags, query)
      + memory.importance * (ScoreUnit \div (2 * Unit))
      + Max(0, 20 * ScoreUnit - daysSince)

(* Array.prototype.filter *)
RECURSIVE filterImportance(_, _, _)
filterImportance(h, refs, minImportance) ==
  IF refs = << >> THEN << >>
  ELSE (IF h[Head(refs)].importance >= minImportance THEN <<Head(refs)>> ELSE << >>)
       \o filterImportance(h, Tail(refs), minImportance)

RECURSIVE filterRelevant(_, _, _, _)
filterRelevant(h, refs, query, now) ==
  IF refs = << >> THEN << >>
  ELSE (IF calculateRelevance(h[Head(refs)], query, now) > 0 THEN <<Head(refs)>> ELSE << >>)
       \o filterRelevant(h, Tail(refs), query, now)

(* Array.prototype.sort by relevance, highest first; the sort is stable *)
RECURSIVE sortByRelevance(_, _, _, _)
sortByRelevance(h, refs, query, now) ==
  IF refs = << >> THEN << >>
  ELSE LET rel(r) == calculateRelevance(h[r], query, now)
           i == CHOOSE k \in 1..Len(refs) :
                  /\ \A j \in 1..Len(refs) : rel(refs[j]) <= rel(refs[k])
                  /\ \A j \in 1..(k - 1) : rel(refs[j]) < rel(refs[k])
       IN  <<refs[i]>> \o
           sortByRelevance(h, SubSeq(refs, 1, i - 1) \o SubSeq(refs, i + 1, Len(refs)),
                           query, now)

(* mutant of MemorySystem_recall: no filter on importance *)
MemorySystem_recall_noImportanceFilter(h, ms, query, limit, minImportance, now) ==
  SliceFirst(sortByRelevance(h, filterRelevant(h, ms.memories, query, now), query, now),
             limit)

(* recall(query, limit, minImportance) with limit >= 0: the records returned *)
MemorySystem_recall(h, ms, query, limit, minImportance, now) ==
  SliceFirst(sortByRelevance(h,
               filterRelevant(h, filterImportance(h, ms.memories, minImportance),
                              query, now),
               query, now),
             limit)

(*------------------- associateMemories, strengthenMemory ------------------*)
(* Array.prototype.includes / push on an associations array *)
associate(associations, id) ==
  IF \E i \in 1..Len(associations) : associations[i] = id
  THEN associations ELSE Append(associations, id)

(* mutant of MemorySystem_associateMemories: only the first record gets the
   edge *)
MemorySystem_associateMemories_oneWay(h, ms, memoryId1, memoryId2) ==
  IF MapHas(h, ms.memories, memoryId1) /\ MapHas(h, ms.memories, memoryId2)
  THEN LET memory1 == MapGet(h, ms.memories, memoryId1)
       IN  [h EXCEPT ![memory1].associations = associate(@, memoryId2)]
  ELSE h

(* associateMemories(memoryId1, memoryId2): the heap afterwards *)
MemorySystem_associateMemories(h, ms, memoryId1, memoryId2) ==
  IF MapHas(h, ms.memories, memoryId1) /\ MapHas(h, ms.memories, memoryId2)
  THEN LET memory1 == MapGet(h, ms.memories, memoryId1)
           memory2 == MapGet(h, ms.memories, memoryId2)
           h1 == [h EXCEPT ![memory1].associations = associate(@, memoryId2)]
       IN  [h1 EXCEPT ![memory2].associations = associate(@, memoryId1)]
  ELSE h

(* strengthenMemory(memoryId, amount): the heap afterwards *)
MemorySystem_strengthenMemory(h, ms, memoryId, amount) ==
  IF MapHas(h, ms.memories, memoryId)
  THEN [h EXCEPT ![MapGet(h, ms.memories, memoryId)].importance = Min(R(100), @ + amount)]
  ELSE h

(***************************************************************************)
(*                            PersonalitySystem                            *)
(*                                                                         *)
(* A trait is stored as the integer trait * TraitUnit.  updateBigFive      *)
(* multiplies by adaptationRate / 100; with rates that are multiples of 5  *)
(* every update divides the denominator by at most 20, so TraitUnit =      *)
(* 20^MaxTraitUpdates keeps MaxTraitUpdates updates exact.                 *)
(***************************************************************************)
MaxTraitUpdates == 2
TraitUnit == 20 ^ MaxTraitUpdates
T(x) == x * TraitUnit

Traits == {"openness", "conscientiousness", "extraversion", "agreeableness", "neuroticism"}

getDefaultBigFive ==
  [openness |-> T(60), conscientiousness |-> T(65), extraversion |-> T(45),
   agreeableness |-> T(70), neuroticism |-> T(35)]

(* mutant of adaptTrait: the assignment without Math.max(0, Math.min(100, .)) *)
adaptTrait_noClamp(currentValue, value, adaptationRate) ==
  currentValue + ((T(value) - currentValue) * adaptationRate) \div 100

(* personality-system.ts:39-41: one trait moved toward value *)
adaptTrait(currentValue, value, adaptationRate) ==
  LET change == ((T(value) - currentValue) * adaptationRate) \div 100
  IN  Max(0, Min(T(100), currentValue + change))

(* mutant of updateBigFive: each trait named is set to its clamped target *)
updateBigFive_absoluteSet(bigFive, changes, adaptationRate) ==
  [t \in Traits |->
     IF t \in DOMAIN changes THEN Max(0, Min(T(100), T(changes[t])))
     ELSE bigFive[t]]

(* updateBigFive(changes): changes is a function from some of the traits to
   the numbers given for them *)
updateBigFive(bigFive, changes, adaptationRate) ==
  [t \in Traits |->
     IF t \in DOMAIN changes THEN adaptTrait(bigFive[t], changes[t], adaptationRate)
     ELSE bigFive[t]]

(* mutant of getResponseStyle: the relationship is not looked at *)
getResponseStyle_noRelationship(bigFive, emotionalState, relationship) ==
  [verbosity |-> IF bigFive.extraversion > T(70) /\ emotionalState.socialBattery > R(60)
                   THEN "verbose"
                 ELSE IF bigFive.extraversion < T(30) \/ emotionalState.socialBattery < R(30)
                   THEN "concise"
                 ELSE "moderate",
   formality |-> IF bigFive.conscientiousness > T(70) THEN "formal"
                 ELSE IF bigFive.extraversion > T(60) /\ bigFive.agreeableness > T(60)
                   THEN "casual"
                 ELSE "neutral"]

(* getResponseStyle(emotionalState, context): verbosity and formality, which
   are computed from the traits, socialBattery and context.relationship; a
   trait effect x / 100 compared with 0.7 is the trait compared with 70 *)
getResponseStyle(bigFive, emotionalState, relationship) ==
  LET verbosity == IF bigFive.extraversion > T(70) /\ emotionalState.socialBattery > R(60)
                     THEN "verbose"
                   ELSE IF bigFive.extraversion < T(30)
                           \/ emotionalState.socialBattery < R(30)
                     THEN "concise"
                   ELSE "moderate"
      formality == IF bigFive.conscientiousness > T(70) THEN "formal"
                   ELSE IF bigFive.extraversion > T(60) /\ bigFive.agreeableness > T(60)
                     THEN "casual"
                   ELSE "neutral"
  IN  IF relationship \in {"friend", "family"}
        THEN [verbosity |-> IF verbosity = "concise" THEN "moderate" ELSE verbosity,
              formality |-> "casual"]
      ELSE IF relationship = "professional"
        THEN [verbosity |-> verbosity, formality |-> "formal"]
      ELSE [verbosity |-> verbosity, formality |-> formality]

(***************************************************************************)
(*                                  Soul                                   *)
(*                                                                         *)
(* The objects a Soul shares by reference live in heaps: the Memory        *)
(* objects (heap), the bigFive objects of the personality configurations   *)
(* (traitHeap) and the ConversationContext objects (ctxHeap).  An operator *)
(* takes and returns the heaps as a record w.  A reference is an index     *)
(* into its heap; 0 and "" stand for an absent (undefined) value.          *)
(***************************************************************************)
SoulShortTermCapacity == 50
MonologueInterval == 30
HistoryLimit == 20
HistoryKeep == 10
RecentMemories == 10

OrNum(x, default) == IF x = 0 THEN default ELSE x
OrStr(x, default) == IF x = "" THEN default ELSE x

(* new Soul() passes no configuration *)
NoConfig ==
  [identity |-> [name |-> "", role |-> ""],
   personality |-> [bigFive |-> 0, mbti |-> "", temperament |-> "", archetype |-> ""],
   initialMood |-> "", memoryCapacity |-> 0, thoughtFrequency |-> 0,
   empathyLevel |-> 0, learningRate |-> 0]

(* new PersonalitySystem(config, adaptationRate): config.bigFive is kept by
   reference when given, a new default object otherwise *)
PersonalitySystem_new(th, config, rate) ==
  LET th1 == IF config.bigFive = 0 THEN Append(th, getDefaultBigFive) ELSE th
  IN  [traitHeap |-> th1,
       ps |-> [config |-> [bigFive |-> IF config.bigFive = 0 THEN Len(th1) ELSE config.bigFive,
                           mbti |-> OrStr(config.mbti, "ISFJ"),
                           temperament |-> OrStr(config.temperament, "phlegmatic"),
                           archetype |-> OrStr(config.archetype, "The Helper")],
               adaptationRate |-> rate]]

(* getConfig(): { ...this.config }, a shallow copy: the same bigFive object *)
getConfig(ps) == ps.config

identityMemory(h, identity, now) ==
  storeHeap(h, <<"I am", identity.name, identity.role>>, "semantic", R(100), 0, now,
            <<"identity", "self">>)

(* new Soul(config) *)
Soul_new(id, config, w, now) ==
  LET identity == IF config.identity.name = ""
                  THEN [name |-> "Soul", role |-> "Companion"] ELSE config.identity
      p == PersonalitySystem_new(w.traitHeap, config.personality,
                                 OrNum(config.learningRate, 5))
      h1 == identityMemory(w.heap, identity, now)
  IN  [soul |->
         [id |-> id,
          identity |-> identity,
          memorySystem |-> MemorySystem_store(h1,
                             MemorySystem_new(SoulShortTermCapacity,
                                              OrNum(config.memoryCapacity, 1000)),
                             Len(h1)),
          moodEngine |-> MoodEngine_new(OrStr(config.initialMood, "neutral"), now),
          personalitySystem |-> p.ps,
          conversationContexts |-> << >>,
          empathyLevel |-> OrNum(config.empathyLevel, 70),
          learningRate |-> OrNum(config.learningRate, 5),
          thoughtFrequency |-> OrNum(config.thoughtFrequency, 30),
          lastThoughtTime |-> 0],
       w |-> [w EXCEPT !.heap = h1, !.traitHeap = p.traitHeap]]

(* String.prototype.toLowerCase on the participant names used *)
toLowerCase(name) ==
  CASE name = "User" -> "user"
    [] name = "Ann"  -> "ann"
    [] OTHER         -> name

(* the conversationContexts Map, keyed by participantId *)
ctxHas(ch, m, participantId) == \E i \in 1..Len(m) : ch[m[i]].participantId = participantId
ctxGet(ch, m, participantId) ==
  m[CHOOSE i \in 1..Len(m) : ch[m[i]].participantId = participantId]
ctxSet(ch, m, participantId, ref) ==
  IF ctxHas(ch, m, participantId)
  THEN [i \in 1..Len(m) |-> IF ch[m[i]].participantId = participantId THEN ref ELSE m[i]]
  ELSE Append(m, ref)

(* mutant of getOrCreateContext: a new context at every call *)
getOrCreateContext_alwaysNew(ch, m, participantId, participantName) ==
  LET ch1 == Append(ch, [participantId |-> participantId,
                         participantName |-> participantName,
                         relationship |-> "acquaintance", history |-> << >>])
  IN  [ctxHeap |-> ch1,
       contexts |-> IF \E i \in 1..Len(m) : ch[m[i]].participantId = participantId
                    THEN [i \in 1..Len(m) |->
                            IF ch[m[i]].participantId = participantId THEN Len(ch1) ELSE m[i]]
                    ELSE Append(m, Len(ch1))]

(* getOrCreateContext: the context heap and the Map afterwards *)
getOrCreateContext(ch, m, participantId, participantName) ==
  IF ctxHas(ch, m, participantId) THEN [ctxHeap |-> ch, contexts |-> m]
  ELSE LET ch1 == Append(ch, [participantId |-> participantId,
                              participantName |-> participantName,
                              relationship |-> "acquaintance", history |-> << >>])
       IN  [ctxHeap |-> ch1, contexts |-> Append(m, Len(ch1))]

(* analyzeEmotionalImpact.  An input is a record of its text and of what the
   function reads from it: positive and negative are the numbers of lexicon
   words the lowercased text includes, length is input.length *)
(* mutant of analyzeEmotionalImpact: the intensity is not capped at 80 *)
analyzeEmotionalImpact_uncapped(input) ==
  LET type == IF input.positive > input.negative THEN "positive"
              ELSE IF input.negative > input.positive THEN "negative" ELSE "neutral"
      intensity == IF type = "positive" THEN 30 + input.positive * 15
                   ELSE IF type = "negative" THEN 30 + input.negative * 15
                   ELSE 20
  IN  [type |-> type,
       intensity |-> intensity,
       importance |-> R(30) + Min(R(50), R(input.length) \div 2),
       emotionalWeight |-> IF type = "positive" THEN R(intensity)
                           ELSE IF type = "negative" THEN -R(intensity) ELSE 0]

(* mutant of analyzeEmotionalImpact: the importance starts from 20 *)
analyzeEmotionalImpact_from20(input) ==
  LET type == IF input.positive > input.negative THEN "positive"
              ELSE IF input.negative > input.positive THEN "negative" ELSE "neutral"
      intensity == IF type = "positive" THEN Min(80, 30 + input.positive * 15)
                   ELSE IF type = "negative" THEN Min(80, 30 + input.negative * 15)
                   ELSE 20
  IN  [type |-> type,
       intensity |-> intensity,
       importance |-> R(20) + Min(R(50), R(input.length) \div 2),
       emotionalWeight |-> IF type = "positive" THEN R(intensity)
                           ELSE IF type = "negative" THEN -R(intensity) ELSE 0]

analyzeEmotionalImpact(input) ==
  LET type == IF input.positive > input.negative THEN "positive"
              ELSE IF input.negative > input.positive THEN "negative" ELSE "neutral"
      intensity == IF type = "positive" THEN Min(80, 30 + input.positive * 15)
                   ELSE IF type = "negative" THEN Min(80, 30 + input.negative * 15)
                   ELSE 20
  IN  [type |-> type,
       intensity |-> intensity,
       importance |-> R(30) + Min(R(50), R(input.length) \div 2),
       emotionalWeight |-> IF type = "positive" THEN R(intensity)
                           ELSE IF type = "negative" THEN -R(intensity) ELSE 0]

(* generateThoughtContent: the type the keyword rules give to template idx
   (1..3) of thoughtTemplates[mood] *)
thoughtTemplateType(mood, idx) ==
  CASE mood = "joyful"        -> <<"emotion", "reflection", "emotion">>[idx]
    [] mood = "content"       -> <<"reflection", "emotion", "reflection">>[idx]
    [] mood = "neutral"       -> <<"reflection", "observation", "reflection">>[idx]
    [] mood = "melancholic"   -> <<"emotion", "reflection", "planning">>[idx]
    [] mood = "anxious"       -> <<"reflection", "reflection", "planning">>[idx]
    [] mood = "excited"       -> <<"observation", "reflection", "reflection">>[idx]
    [] mood = "calm"          -> <<"reflection", "reflection", "reflection">>[idx]
    [] mood = "frustrated"    -> <<"planning", "planning", "reflection">>[idx]
    [] mood = "curious"       -> <<"observation", "observation", "reflection">>[idx]
    [] mood = "contemplative" -> <<"reflection", "planning", "reflection">>[idx]

(* mutant of MoodEngine_generateInternalMonologue: the last thought is not
   looked at *)
MoodEngine_generateInternalMonologue_noRateLimit(me, idx, now) ==
  [me |-> [me EXCEPT !.thoughts =
             addThought(@, <<"template", me.emotionalState.mood, idx>>, "reflection", now)],
   made |-> TRUE]

(* generateInternalMonologue: idx is the template Math.random() picks;
   made tells whether a Thought was returned *)
MoodEngine_generateInternalMonologue(me, idx, now) ==
  IF /\ Len(me.thoughts) > 0
     /\ now - me.thoughts[Len(me.thoughts)].timestamp < MonologueInterval
  THEN [me |-> me, made |-> FALSE]
  ELSE [me |-> [me EXCEPT !.thoughts =
                  addThought(@, <<"template", me.emotionalState.mood, idx>>,
                             thoughtTemplateType(me.emotionalState.mood, idx), now)],
        made |-> TRUE]

(* Soul.generateThoughts: the mood engine and lastThoughtTime afterwards *)
generateThoughts(soul, me, input, idx, now) ==
  LET due == now - soul.lastThoughtTime > soul.thoughtFrequency
      mono == IF due THEN MoodEngine_generateInternalMonologue(me, idx, now)
              ELSE [me |-> me, made |-> FALSE]
      me2 == IF input.question
             THEN [mono.me EXCEPT !.thoughts =
                     addThought(@, <<"question", "", 0>>, "observation", now)]
             ELSE mono.me
  IN  [me |-> me2,
       lastThoughtTime |-> IF mono.made THEN now ELSE soul.lastThoughtTime,
       count |-> (IF mono.made THEN 1 ELSE 0) + (IF input.question THEN 1 ELSE 0)]

(* the two history.push entries and the trim of respond (soul.ts:182-199) *)
pushHistory(history, participantName, soulName, input, response, type, now) ==
  LET h == history \o
           << [speaker |-> participantName, message |-> input.text,
               emotionalResponse |-> type, timestamp |-> now],
              [speaker |-> soulName, message |-> response,
               emotionalResponse |-> "", timestamp |-> now] >>
  IN  IF Len(h) > HistoryLimit THEN SliceLast(h, HistoryKeep) ELSE h

(* mutant of Soul_respond: the response record takes the whole emotional
   weight of the input.  The text of the response (generateResponse, which reads
   recall, getResponseStyle and getBehavioralTendencies and changes nothing)
   is kept as the token "response". *)
Soul_respond_fullWeight(soul, w, input, participantId, participantName, idx, now) ==
  LET c == getOrCreateContext(w.ctxHeap, soul.conversationContexts,
                              participantId, participantName)
      context == ctxGet(c.ctxHeap, c.contexts, participantId)
      emotionalImpact == analyzeEmotionalImpact(input)
      me1 == MoodEngine_updateMood(soul.moodEngine, emotionalImpact.type,
                                   emotionalImpact.intensity, now)
      h1 == storeHeap(w.heap, <<participantName, "said", input.text>>,
                      "episodic", emotionalImpact.importance,
                      emotionalImpact.emotionalWeight, now,
                      <<"conversation", toLowerCase(participantName), "input">>)
      conversationMemory == Len(h1)
      ms1 == MemorySystem_store(h1, soul.memorySystem, conversationMemory)
      th == generateThoughts(soul, me1, input, idx, now)
      response == "response"
      h2 == storeHeap(h1, <<"I responded", response>>, "episodic", R(40),
                      emotionalImpact.emotionalWeight, now,
                      <<"conversation", toLowerCase(participantName), "response">>)
      ms2 == MemorySystem_store(h2, ms1, Len(h2))
      ch2 == [c.ctxHeap EXCEPT ![context].history =
                pushHistory(@, participantName, soul.identity.name, input, response,
                            emotionalImpact.type, now)]
  IN  [soul |-> [soul EXCEPT !.conversationContexts = c.contexts,
                             !.moodEngine = th.me,
                             !.memorySystem = ms2,
                             !.lastThoughtTime = th.lastThoughtTime],
       w |-> [w EXCEPT !.heap = h2, !.ctxHeap = ch2],
       result |-> [response |-> response, mood |-> th.me.emotionalState.mood,
                   thoughts |-> th.count, memories |-> <<conversationMemory>>]]

(* Soul.respond.  The text of the response (generateResponse, which reads
   recall, getResponseStyle and getBehavioralTendencies and changes nothing)
   is kept as the token "response". *)
Soul_respond(soul, w, input, participantId, participantName, idx, now) ==
  LET c == getOrCreateContext(w.ctxHeap, soul.conversationContexts,
                              participantId, participantName)
      context == ctxGet(c.ctxHeap, c.contexts, participantId)
      emotionalImpact == analyzeEmotionalImpact(input)
      me1 == MoodEngine_updateMood(soul.moodEngine, emotionalImpact.type,
                                   emotionalImpact.intensity, now)
      h1 == storeHeap(w.heap, <<participantName, "said", input.text>>,
                      "episodic", emotionalImpact.importance,
                      emotionalImpact.emotionalWeight, now,
                      <<"conversation", toLowerCase(participantName), "input">>)
      conversationMemory == Len(h1)
      ms1 == MemorySystem_store(h1, soul.memorySystem, conversationMemory)
      th == generateThoughts(soul, me1, input, idx, now)
      response == "response"
      h2 == storeHeap(h1, <<"I responded", response>>, "episodic", R(40),
                      emotionalImpact.emotionalWeight \div 2, now,
                      <<"conversation", toLowerCase(participantName), "response">>)
      ms2 == MemorySystem_store(h2, ms1, Len(h2))
      ch2 == [c.ctxHeap EXCEPT ![context].history =
                pushHistory(@, participantName, soul.identity.name, input, response,
                            emotionalImpact.type, now)]
  IN  [soul |-> [soul EXCEPT !.conversationContexts = c.contexts,
                             !.moodEngine = th.me,
                             !.memorySystem = ms2,
                             !.lastThoughtTime = th.lastThoughtTime],
       w |-> [w EXCEPT !.heap = h2, !.ctxHeap = ch2],
       result |-> [response |-> response, mood |-> th.me.emotionalState.mood,
                   thoughts |-> th.count, memories |-> <<conversationMemory>>]]

(* Array.prototype.sort by timestamp, newest first; the sort is stable *)
RECURSIVE sortNewestFirst(_, _)
sortNewestFirst(h, refs) ==
  IF refs = << >> THEN << >>
  ELSE LET i == CHOOSE k \in 1..Len(refs) :
                  /\ \A j \in 1..Len(refs) : h[refs[j]].timestamp <= h[refs[k]].timestamp
                  /\ \A j \in 1..(k - 1) : h[refs[j]].timestamp < h[refs[k]].timestamp
       IN  <<refs[i]>> \o
           sortNewestFirst(h, SubSeq(refs, 1, i - 1) \o SubSeq(refs, i + 1, Len(refs)))

getRecentMemories(h, ms, count) == SliceFirst(sortNewestFirst(h, ms.memories), count)

(* mutant of adaptations: equal counts are taken as a negative majority *)
adaptations_onTie(h, memories) ==
  LET positive == Cardinality({i \in 1..Len(memories) :
                                 h[memories[i]].emotional_weight > R(30)})
      negative == Cardinality({i \in 1..Len(memories) :
                                 h[memories[i]].emotional_weight < R(-30)})
  IN  IF positive > negative
      THEN [t \in {"extraversion", "neuroticism"} |-> IF t = "extraversion" THEN 2 ELSE -1]
      ELSE [t \in {"neuroticism"} |-> 1]

(* Soul.adaptPersonality: the adaptations object *)
adaptations(h, memories) ==
  LET positive == Cardinality({i \in 1..Len(memories) :
                                 h[memories[i]].emotional_weight > R(30)})
      negative == Cardinality({i \in 1..Len(memories) :
                                 h[memories[i]].emotional_weight < R(-30)})
  IN  IF positive > negative
      THEN [t \in {"extraversion", "neuroticism"} |-> IF t = "extraversion" THEN 2 ELSE -1]
      ELSE IF negative > positive THEN [t \in {"neuroticism"} |-> 1]
      ELSE << >>

(* Soul.reflect.  The insight strings and the mood trend, which are returned
   and change nothing, are not computed; the text of the reflection memory
   is kept as a token. *)
Soul_reflect(soul, w, now) ==
  LET recentMemories == getRecentMemories(w.heap, soul.memorySystem, RecentMemories)
      personalityChanges == adaptations(w.heap, recentMemories)
      ref == soul.personalitySystem.config.bigFive
      th1 == [w.traitHeap EXCEPT ![ref] =
                updateBigFive(@, personalityChanges, soul.personalitySystem.adaptationRate)]
      h1 == storeHeap(w.heap, <<"I reflected">>, "semantic", R(60), R(10), now,
                      <<"reflection", "self-awareness", "growth">>)
  IN  [soul |-> [soul EXCEPT !.memorySystem = MemorySystem_store(h1, @, Len(h1))],
       w |-> [w EXCEPT !.heap = h1, !.traitHeap = th1],
       result |-> [personalityChanges |-> personalityChanges]]

(* Soul.export *)
Soul_export(soul) ==
  [id |-> soul.id,
   identity |-> soul.identity,
   personality |-> getConfig(soul.personalitySystem),
   memories |-> MemorySystem_export(soul.memorySystem),
   conversationContexts |-> soul.conversationContexts,
   empathyLevel |-> soul.empathyLevel,
   learningRate |-> soul.learningRate]

(* the forEach of Soul.import (soul.ts:305-307) *)
RECURSIVE importContexts(_, _, _)
importContexts(ch, m, contexts) ==
  IF contexts = << >> THEN m
  ELSE importContexts(ch, ctxSet(ch, m, ch[Head(contexts)].participantId, Head(contexts)),
                      Tail(contexts))

(* Soul.import *)
Soul_import(soul, w, data) ==
  LET p == PersonalitySystem_new(w.traitHeap, data.personality, data.learningRate)
  IN  [soul |-> [soul EXCEPT
                   !.id = data.id,
                   !.identity = data.identity,
                   !.empathyLevel = data.empathyLevel,
                   !.learningRate = data.learningRate,
                   !.memorySystem = MemorySystem_import(w.heap, @, data.memories),
                   !.conversationContexts = importContexts(w.ctxHeap, @, data.conversationContexts),
                   !.personalitySystem = p.ps],
       w |-> [w EXCEPT !.traitHeap = p.traitHeap]]

(* MemorySystem.getAssociatedMemories(memoryId): the records of the index
   named by the record's associations *)
MemorySystem_getAssociatedMemories(h, ms, memoryId) ==
  IF ~MapHas(h, ms.memories, memoryId) THEN << >>
  ELSE LET ids == h[MapGet(h, ms.memories, memoryId)].associations
       IN  [i \in 1..Len(SelectSeq(ids, LAMBDA id : MapHas(h, ms.memories, id))) |->
              MapGet(h, ms.memories,
                     SelectSeq(ids, LAMBDA id : MapHas(h, ms.memories, id))[i])]

(* Soul.withMood(mood): the argument is not read *)
Soul_withMood(soul, mood, now) ==
  [soul EXCEPT !.moodEngine = MoodEngine_updateMood(@, "neutral", 0, now)]

(* Soul.withPersonality(personality) *)
Soul_withPersonality(soul, w, personality) ==
  LET p == PersonalitySystem_new(w.traitHeap, personality, soul.learningRate)
  IN  [soul |-> [soul EXCEPT !.personalitySystem = p.ps],
       w |-> [w EXCEPT !.traitHeap = p.traitHeap]]

(* Soul.withEmpathy(level) *)
Soul_withEmpathy(soul, level) ==
  [soul EXCEPT !.empathyLevel = Max(0, Min(100, level))]

(* Soul.simulateTimePassage(minutes): thinks is the outcome of
   Math.random() < 0.3, idx the template Math.random() picks *)
Soul_simulateTimePassage(soul, minutes, thinks, idx, now) ==
  LET me == MoodEngine_simulateTimePassage(soul.moodEngine, minutes, now)
  IN  [soul EXCEPT !.moodEngine =
         IF thinks THEN MoodEngine_generateInternalMonologue(me, idx, now).me ELSE me]

(* Soul.withIdentity(identity): a field that is not given is "" *)
Soul_withIdentity(soul, w, identity, now) ==
  LET merged == [name |-> OrStr(identity.name, soul.identity.name),
                 role |-> OrStr(identity.role, soul.identity.role)]
      h1 == identityMemory(w.heap, merged, now)
  IN  [soul |-> [soul EXCEPT !.identity = merged,
                             !.memorySystem = MemorySystem_store(h1, @, Len(h1))],
       w |-> [w EXCEPT !.heap = h1]]

(* the texts of a Soul's records are sequences of words, the input being one
   word of the content; recall reads a tag as a text of one word *)
tagsAsTexts(h) ==
  [r \in 1..Len(h) |-> [h[r] EXCEPT !.tags = [k \in 1..Len(h[r].tags) |-> <<h[r].tags[k]>>]]]

(* Soul.respond, lines 144-154: the result of this.memorySystem.recall(input, 5, 30),
   made after the input record is stored *)
relevantMemories(soul, w, input, participantName, now) ==
  LET emotionalImpact == analyzeEmotionalImpact(input)
      h1 == storeHeap(w.heap, <<participantName, "said", input.text>>,
                      "episodic", emotionalImpact.importance,
                      emotionalImpact.emotionalWeight, now,
                      <<"conversation", toLowerCase(participantName), "input">>)
      ms1 == MemorySystem_store(h1, soul.memorySystem, Len(h1))
  IN  MemorySystem_recall(tagsAsTexts(h1), ms1, <<input.text>>, 5, R(30), now)

(* simulateTimePassage(minutes) with 0 < minutes so small (1e-20, say) that
   minutes * 0.1, minutes * 0.05 and minutes * 0.2 are less than half the
   distance between a stored scalar and the next double: the subtractions
   and the addition return the stored value, Math.max(0, 0 - x) is 0, and the
   mood check is made on the scalars as they were.  (A battery of exactly 0
   becomes minutes * 0.2, which no test of the program tells from 0.) *)
MoodEngine_simulateInstant(me, now) ==
  reclassify(me, me.emotionalState, now, FALSE)

(* Soul.getStatus().mood *)
getCurrentMood(soul) == soul.moodEngine.emotionalState.mood

(***************************************************************************)
(*                          State and specifications                       *)
(***************************************************************************)
VARIABLES
  now,               \* Date.now(), in seconds
  probe,             \* a scalar vector given to calculateMoodFromState, and its result
  moodEngine,        \* the MoodEngine instances, by engine number
  moodTrace,         \* per engine: calls made, the last call, the mood before it
  memorySystem,      \* a MemorySystem instance
  heap,              \* the Memory objects
  memTrace,          \* calls made on memorySystem and the last one
  bigFive,           \* config.bigFive of a PersonalitySystem instance
  adaptationRate,    \* its adaptationRate
  persTrace,         \* updateBigFive calls made and the last changes
  souls,             \* the Soul instances, by the name of the program variable
  traitHeap,         \* the bigFive objects of the Souls
  ctxHeap,           \* the ConversationContext objects
  soulTrace,         \* calls made on the Souls and the last one
  platform           \* the DigitalBeingPlatform: beings, chat sessions, last response

vars == <<now, probe, moodEngine, moodTrace, memorySystem, heap, memTrace,
          bigFive, adaptationRate, persTrace, souls, traitHeap, ctxHeap, soulTrace,
          platform>>

T0 == 1000

(* the values the variables of the other components keep in a specification
   that does not exercise them *)
IdleProbe == [energy |-> 0, stress |-> 0, confidence |-> 0, socialBattery |-> 0,
              mood |-> "none"]
IdleMood == /\ moodEngine = [e \in {1} |-> MoodEngine_new("neutral", T0)]
            /\ moodTrace = [e \in {1} |-> [calls |-> 0, last |-> "new", before |-> "neutral"]]
IdleMem == /\ memorySystem = MemorySystem_new(1, 1)
           /\ heap = << >>
           /\ memTrace = [stores |-> 0, imports |-> 0, explicit |-> 0, fill |-> 50, last |-> "new"]
IdlePers == /\ bigFive = getDefaultBigFive
            /\ adaptationRate = 5
            /\ persTrace = [updates |-> 0, changes |-> << >>]

IdleSoulTrace == [ops |-> 0, responds |-> 0, reflects |-> 0, used |-> {},
                  last |-> [op |-> "new", soul |-> "", from |-> ""]]
IdlePlatform == platform = [beings |-> << >>, chatSessions |-> << >>,
                             response |-> [route |-> "none", status |-> 0]]
IdleSoul == /\ souls = << >>
            /\ traitHeap = << >>
            /\ ctxHeap = << >>
            /\ soulTrace = IdleSoulTrace

moodVars == <<moodEngine, moodTrace>>
memVars == <<memorySystem, heap, memTrace>>
persVars == <<bigFive, adaptationRate, persTrace>>
soulVars == <<souls, traitHeap, ctxHeap, soulTrace>>
platVars == <<platform>>

(*------------------------ calculateMoodFromState -------------------------*)
(* the scalar vectors tried: every threshold of the decision table, the value
   just past it, and values between *)
EnergyGrid == {0, R(20), R(30) - 1, R(30), R(60), R(60) + 1, R(75), R(80), R(80) + 1,
               R(85), R(100)}
StressGrid == {0, R(10), R(30) - 1, R(30), R(40) - 1, R(40), R(40) + 1, R(70),
               R(70) + 1, R(80), R(100)}
ConfidenceGrid == {0, R(50), R(50) + 1, R(60), R(70), R(70) + 1, R(75), R(80) - 1,
                   R(80), R(100)}
SocialGrid == {0, R(70), R(70) + 1, R(80), R(100)}

InitClassify ==
  /\ now = T0
  /\ probe \in [energy : EnergyGrid, stress : StressGrid, confidence : ConfidenceGrid,
                socialBattery : SocialGrid, mood : {"none"}]
  /\ IdleMood /\ IdleMem /\ IdlePers /\ IdleSoul /\ IdlePlatform

Classify ==
  /\ probe.mood = "none"
  /\ probe' = [probe EXCEPT !.mood = calculateMoodFromState(probe.energy, probe.stress,
                                        probe.confidence, probe.socialBattery)]
  /\ UNCHANGED <<now, moodVars, memVars, persVars, soulVars, platVars>>

SpecClassify == InitClassify /\ [][Classify]_vars

(*------------------------------- MoodEngine ------------------------------*)
MaxMoodOps == 4
MaxPairOps == 3
InitialMoods == {"neutral", "curious", "joyful"}
Stimuli == {<<"positive", 45>>, <<"positive", 100>>, <<"negative", 45>>,
            <<"negative", 100>>, <<"neutral", 0>>}
Minutes == {0, 30, 600}
BatteryChanges == {-200, -50, 30}

called(e, name) ==
  [moodTrace EXCEPT ![e] = [calls |-> @.calls + 1, last |-> name,
                            before |-> moodEngine[e].emotionalState.mood]]

(* the calls left: MaxMoodOps for a single engine, MaxPairOps for two together *)
RECURSIVE callsMade(_)
callsMade(engines) ==
  IF engines = {} THEN 0
  ELSE LET e == CHOOSE x \in engines : TRUE
       IN  moodTrace[e].calls + callsMade(engines \ {e})

MoodBudget ==
  callsMade(DOMAIN moodEngine) <
    (IF Cardinality(DOMAIN moodEngine) = 1 THEN MaxMoodOps ELSE MaxPairOps)

UpdateMood(e, type, intensity) ==
  /\ MoodBudget
  /\ moodEngine' = [moodEngine EXCEPT ![e] = MoodEngine_updateMood(@, type, intensity, now)]
  /\ moodTrace' = called(e, "updateMood")
  /\ UNCHANGED <<now, probe, memVars, persVars, soulVars, platVars>>

SimulateTimePassage(e, minutes) ==
  /\ MoodBudget
  /\ moodEngine' = [moodEngine EXCEPT ![e] = MoodEngine_simulateTimePassage(@, minutes, now)]
  /\ moodTrace' = called(e, "simulateTimePassage")
  /\ UNCHANGED <<now, probe, memVars, persVars, soulVars, platVars>>

AdjustSocialBattery(e, change) ==
  /\ MoodBudget
  /\ moodEngine' = [moodEngine EXCEPT ![e] = MoodEngine_adjustSocialBattery(@, change)]
  /\ moodTrace' = called(e, "adjustSocialBattery")
  /\ UNCHANGED <<now, probe, memVars, persVars, soulVars, platVars>>

(* the engines of `engines`, each constructed with any of InitialMoods *)
InitEngines(engines) ==
  /\ now = T0
  /\ probe = IdleProbe
  /\ \E m \in [engines -> InitialMoods] :
       /\ moodEngine = [e \in engines |-> MoodEngine_new(m[e], T0)]
       /\ moodTrace = [e \in engines |-> [calls |-> 0, last |-> "new", before |-> m[e]]]
  /\ IdleMem /\ IdlePers /\ IdleSoul /\ IdlePlatform

NextMood ==
  \/ \E e \in DOMAIN moodEngine, st \in Stimuli : UpdateMood(e, st[1], st[2])
  \/ \E e \in DOMAIN moodEngine, m \in Minutes : SimulateTimePassage(e, m)
  \/ \E e \in DOMAIN moodEngine, c \in BatteryChanges : AdjustSocialBattery(e, c)

(* one engine *)
InitMood == InitEngines({1})
SpecMood == InitMood /\ [][NextMood]_vars

(* two engines, called in any order *)
InitMoodPair == InitEngines({1, 2})
SpecMoodPair == InitMoodPair /\ [][NextMood]_vars

(*--------------------------- claims: MoodEngine --------------------------*)
scalarsOf(es) == <<es.energy, es.stress, es.confidence, es.socialBattery>>
Reclassifying == {"updateMood", "simulateTimePassage"}

(* C6: for every sequence of updateMood (any polarity, intensity 0..100),
   simulateTimePassage (minutes >= 0) and adjustSocialBattery (any change)
   calls, energy, stress, confidence and socialBattery stay within [0, 100] *)
C6_EmotionalStateBound ==
  \A e \in DOMAIN moodEngine :
    \A x \in {moodEngine[e].emotionalState.energy, moodEngine[e].emotionalState.stress,
              moodEngine[e].emotionalState.confidence,
              moodEngine[e].emotionalState.socialBattery} :
      0 <= x /\ x <= R(100)

(* a positive stimulus has driven energy and confidence into the upper clamp
   after adjustSocialBattery drove the battery into the lower one *)
C6_Witness ==
  /\ moodTrace[1].last = "updateMood"
  /\ moodEngine[1].emotionalState.energy = R(100)
  /\ moodEngine[1].emotionalState.confidence = R(100)
  /\ moodEngine[1].emotionalState.socialBattery = 0

(* C8: the mood left by updateMood or simulateTimePassage depends only on the
   resulting four scalars: two engines whose last call was one of the two and
   that hold the same scalars hold the same mood, whatever their histories
   and previous moods *)
C8_MoodDeterminism ==
  \A e1, e2 \in DOMAIN moodEngine :
    ( /\ moodTrace[e1].last \in Reclassifying
      /\ moodTrace[e2].last \in Reclassifying
      /\ scalarsOf(moodEngine[e1].emotionalState) = scalarsOf(moodEngine[e2].emotionalState) )
    => moodEngine[e1].emotionalState.mood = moodEngine[e2].emotionalState.mood

(* two engines reach the same scalars by different calls, from different
   previous moods and with different mood histories *)
C8_Witness ==
  /\ DOMAIN moodEngine = {1, 2}
  /\ moodTrace[1].last = "updateMood"
  /\ moodTrace[2].last = "simulateTimePassage"
  /\ moodTrace[1].calls # moodTrace[2].calls
  /\ moodTrace[1].before # moodTrace[2].before
  /\ moodEngine[1].moodHistory # moodEngine[2].moodHistory
  /\ scalarsOf(moodEngine[1].emotionalState) = scalarsOf(moodEngine[2].emotionalState)
  /\ scalarsOf(moodEngine[1].emotionalState) # <<R(70), R(20), R(60), R(80)>>

(* C9: the classification follows the six-rule table in priority order, for
   every scalar vector, and gives anxious, contemplative and joyful on the
   three vectors the specification names *)
C9_DecisionTable ==
  probe.mood # "none" =>
    LET e == probe.energy
        s == probe.stress
        c == probe.confidence
        b == probe.socialBattery
        r1 == s > R(70)
        r2 == e < R(30)
        r3 == e > R(80) /\ s < R(30)
        r4 == c > R(70) /\ s < R(40)
        r5 == b > R(70) /\ R(50) < c /\ c < R(80)
    IN  /\ r1 => probe.mood = (IF e > R(60) THEN "anxious" ELSE "frustrated")
        /\ (~r1 /\ r2) => probe.mood = (IF s > R(40) THEN "melancholic" ELSE "contemplative")
        /\ (~r1 /\ ~r2 /\ r3) => probe.mood = (IF c > R(70) THEN "joyful" ELSE "excited")
        /\ (~r1 /\ ~r2 /\ ~r3 /\ r4) => probe.mood = (IF e > R(60) THEN "content" ELSE "calm")
        /\ (~r1 /\ ~r2 /\ ~r3 /\ ~r4 /\ r5) => probe.mood = "curious"
        /\ (~r1 /\ ~r2 /\ ~r3 /\ ~r4 /\ ~r5) => probe.mood = "neutral"
        /\ (e = R(75) /\ s = R(80)) => probe.mood = "anxious"
        /\ (e = R(20) /\ s = R(10)) => probe.mood = "contemplative"
        /\ (e = R(85) /\ s = R(10) /\ c = R(75)) => probe.mood = "joyful"

(* high stress with low energy has been classified: rule 1 before rule 2 *)
C9_Witness ==
  /\ probe.mood = "frustrated"
  /\ probe.stress > R(70)
  /\ probe.energy < R(30)

(* C10 as claimed: in every reachable state, directly after construction and
   after adjustSocialBattery included, the stored mood is the classification
   of the current scalars *)
C10_MoodAlwaysClassified ==
  \A e \in DOMAIN moodEngine :
    moodEngine[e].emotionalState.mood = classify(moodEngine[e].emotionalState)

(* C10 as amended: directly after updateMood or simulateTimePassage the stored
   mood is the classification of the current scalars; the constructor stores
   the mood it is given and adjustSocialBattery leaves the mood as it was *)
C10_MoodClassifiedAfterCall ==
  \A e \in DOMAIN moodEngine :
    /\ moodTrace[e].last \in Reclassifying =>
         moodEngine[e].emotionalState.mood = classify(moodEngine[e].emotionalState)
    /\ moodTrace[e].last \in {"new", "adjustSocialBattery"} =>
         moodEngine[e].emotionalState.mood = moodTrace[e].before

(* simulateTimePassage has changed the mood, to contemplative *)
C10_Witness ==
  /\ moodTrace[1].last = "simulateTimePassage"
  /\ moodTrace[1].before # "contemplative"
  /\ moodEngine[1].emotionalState.mood = "contemplative"

(*------------------------------ MemorySystem -----------------------------*)
MaxMemOps == 3
MaxShortCap == 2
MaxLongCap == 1
MaxImportLen == 2

(* (importance, emotional_weight) of a store call: in range, at the promotion
   threshold, and outside the documented ranges *)
StoreInputs == {<<40, 0>>, <<60, 50>>, <<150, -200>>}
(* importance of an imported record *)
ImportInputs == {40, 70}

(* the Memory objects of an import that come from elsewhere: new objects with
   ids of their own *)
RECURSIVE foreignHeap(_, _)
foreignHeap(h, importances) ==
  IF importances = << >> THEN h
  ELSE foreignHeap(storeHeap(h, <<"imported">>, "semantic", R(Head(importances)), 0, now, << >>),
                   Tail(importances))

InitMem ==
  /\ now = T0
  /\ probe = IdleProbe
  /\ IdleMood /\ IdlePers /\ IdleSoul /\ IdlePlatform
  /\ \E sc \in 1..MaxShortCap, lc \in 0..MaxLongCap :
       memorySystem = MemorySystem_new(sc, lc)
  /\ heap = << >>
  /\ memTrace = [stores |-> 0, imports |-> 0, explicit |-> 0, fill |-> 50, last |-> "new"]

MemBudget == memTrace.stores + memTrace.imports < MaxMemOps

(* store(content, type, importance, emotional_weight, tags) *)
Store(importance, emotional_weight) ==
  /\ MemBudget
  /\ heap' = storeHeap(heap, <<"memo">>, "episodic", R(importance), R(emotional_weight),
                       now, << >>)
  /\ memorySystem' = MemorySystem_store(heap', memorySystem, Len(heap'))
  /\ memTrace' = [memTrace EXCEPT !.stores = @ + 1, !.explicit = @ + 1, !.last = "store"]
  /\ UNCHANGED <<now, probe, moodVars, persVars, soulVars, platVars>>

(* import(records) of objects made elsewhere *)
ImportForeign(importances) ==
  /\ MemBudget
  /\ heap' = foreignHeap(heap, importances)
  /\ memorySystem' = MemorySystem_import(heap', memorySystem,
                       [i \in 1..Len(importances) |-> Len(heap) + i])
  /\ memTrace' = [memTrace EXCEPT !.imports = @ + 1, !.last = "import"]
  /\ UNCHANGED <<now, probe, moodVars, persVars, soulVars, platVars>>

(* import(export()): the store's own objects *)
ImportExport ==
  /\ MemBudget
  /\ memorySystem.memories # << >>
  /\ memorySystem' = MemorySystem_import(heap, memorySystem, MemorySystem_export(memorySystem))
  /\ memTrace' = [memTrace EXCEPT !.imports = @ + 1, !.last = "import"]
  /\ UNCHANGED <<now, probe, heap, moodVars, persVars, soulVars, platVars>>

ImportBatches ==
  UNION {[1..n -> ImportInputs] : n \in 1..MaxImportLen}

NextMem ==
  \/ \E inp \in StoreInputs : Store(inp[1], inp[2])
  \/ \E batch \in ImportBatches : ImportForeign(batch)
  \/ ImportExport

SpecMem == InitMem /\ [][NextMem]_vars

(* a store with the default capacities, new MemorySystem(), filled by store
   calls alone: calls that pass the importance the caller habitually passes
   (fill, any of FillImportances) and at most MaxExplicit calls that pass
   another one *)
MaxBulkStores == 51
MaxExplicit == 1
FillImportances == {50, 70}
ExplicitImportances == {40, 70}

InitDefaultCap ==
  /\ now = T0
  /\ probe = IdleProbe
  /\ IdleMood /\ IdlePers /\ IdleSoul /\ IdlePlatform
  /\ memorySystem = MemorySystem_new(DefaultShortTermCapacity, DefaultLongTermCapacity)
  /\ heap = << >>
  /\ \E f \in FillImportances :
       memTrace = [stores |-> 0, imports |-> 0, explicit |-> 0, fill |-> f, last |-> "new"]

StoreFill ==
  /\ memTrace.stores < MaxBulkStores
  /\ heap' = storeHeap(heap, <<"memo">>, "episodic", R(memTrace.fill), 0, now, << >>)
  /\ memorySystem' = MemorySystem_store(heap', memorySystem, Len(heap'))
  /\ memTrace' = [memTrace EXCEPT !.stores = @ + 1, !.last = "store"]
  /\ UNCHANGED <<now, probe, moodVars, persVars, soulVars, platVars>>

StoreOther(importance) ==
  /\ memTrace.stores < MaxBulkStores
  /\ memTrace.explicit < MaxExplicit
  /\ heap' = storeHeap(heap, <<"memo">>, "episodic", R(importance), 0, now, << >>)
  /\ memorySystem' = MemorySystem_store(heap', memorySystem, Len(heap'))
  /\ memTrace' = [memTrace EXCEPT !.stores = @ + 1, !.explicit = @ + 1, !.last = "store"]
  /\ UNCHANGED <<now, probe, moodVars, persVars, soulVars, platVars>>

NextDefaultCap ==
  \/ StoreFill
  \/ \E imp \in ExplicitImportances : StoreOther(imp)

SpecDefaultCap == InitDefaultCap /\ [][NextDefaultCap]_vars

(*-------------------------- claims: MemorySystem -------------------------*)
Range(seq) == {seq[i] : i \in 1..Len(seq)}
inIndex(r) == r \in Range(memorySystem.memories)
(* the records that store created and that are no longer in the short-term list *)
leftShortTerm == {r \in 1..Len(heap) : r \notin Range(memorySystem.shortTermMemory)}

(* C2: in every state reachable by store and import calls the short-term list
   holds at most the short-term capacity and the long-term list at most the
   long-term capacity *)
C2_CapacityInvariant ==
  /\ Len(memorySystem.shortTermMemory) <= memorySystem.maxShortTermSize
  /\ Len(memorySystem.longTermMemory) <= memorySystem.maxLongTermSize

(* an import after stores has filled both lists and records have been evicted *)
C2_Witness ==
  /\ memTrace.last = "import"
  /\ memTrace.stores > 0
  /\ memorySystem.maxLongTermSize > 0
  /\ Len(memorySystem.shortTermMemory) = memorySystem.maxShortTermSize
  /\ Len(memorySystem.longTermMemory) = memorySystem.maxLongTermSize
  /\ Len(memorySystem.memories) < Len(heap)

(* C3: from an empty store with short-term capacity c, after c+1 store calls
   the short-term list holds exactly c records, exactly one record has left
   it, and that record is either in the long-term list or deleted from the
   index, not both and not neither *)
C3_ConsolidationBound ==
  (memTrace.imports = 0 /\ memTrace.stores = memorySystem.maxShortTermSize + 1) =>
    /\ Len(memorySystem.shortTermMemory) = memorySystem.maxShortTermSize
    /\ Cardinality(leftShortTerm) = 1
    /\ \A r \in leftShortTerm :
         (r \in Range(memorySystem.longTermMemory)) # (~MapHas(heap, memorySystem.memories, heap[r].id))

(* capacity 2, three stores, the record that left was promoted *)
C3_Witness ==
  /\ memTrace.imports = 0
  /\ memorySystem.maxShortTermSize = 2
  /\ memTrace.stores = 3
  /\ memorySystem.longTermMemory = <<1>>
  /\ inIndex(1)

(* C4 as claimed: capacity 50, 51 stores, the 51st with importance 40: the
   short-term list holds 50 records and the record that left it is deleted
   from the index and not in the long-term list *)
C4_LastImportanceDecides ==
  ( /\ memorySystem.maxShortTermSize = DefaultShortTermCapacity
    /\ memTrace.stores = DefaultShortTermCapacity + 1
    /\ heap[DefaultShortTermCapacity + 1].importance = R(40) )
  => /\ Len(memorySystem.shortTermMemory) = DefaultShortTermCapacity
     /\ \A r \in leftShortTerm :
          /\ ~MapHas(heap, memorySystem.memories, heap[r].id)
          /\ r \notin Range(memorySystem.longTermMemory)

(* C4 as amended: capacity 50, 51 stores, the first with importance 40: the
   short-term list holds 50 records and the record that left it, the first,
   is deleted from the index and not in the long-term list *)
C4_FirstImportanceDecides ==
  ( /\ memorySystem.maxShortTermSize = DefaultShortTermCapacity
    /\ memTrace.stores = DefaultShortTermCapacity + 1
    /\ heap[1].importance = R(40) )
  => /\ Len(memorySystem.shortTermMemory) = DefaultShortTermCapacity
     /\ leftShortTerm = {1}
     /\ ~MapHas(heap, memorySystem.memories, heap[1].id)
     /\ 1 \notin Range(memorySystem.longTermMemory)

(* 51 stores, the first with importance 40 among records of importance 70 *)
C4_Witness ==
  /\ memTrace.stores = DefaultShortTermCapacity + 1
  /\ heap[1].importance = R(40)
  /\ heap[DefaultShortTermCapacity + 1].importance = R(70)
  /\ Len(memorySystem.memories) = DefaultShortTermCapacity

(* C5: every record in the index has importance in [0, 100] and
   emotional_weight in [-100, 100], whatever the store calls passed *)
C5_StoredRecordsInRange ==
  \A r \in Range(memorySystem.memories) :
    /\ 0 <= heap[r].importance /\ heap[r].importance <= R(100)
    /\ R(-100) <= heap[r].emotional_weight /\ heap[r].emotional_weight <= R(100)

(*---------------------------- PersonalitySystem --------------------------*)
InitialBigFive ==
  {getDefaultBigFive,
   [openness |-> T(0), conscientiousness |-> T(100), extraversion |-> T(100),
    agreeableness |-> T(0), neuroticism |-> T(50)]}
Rates == {0, 5, 50, 100}
ChangeTargets == {-50, 2, 150}

(* the changes objects tried: one trait with any of ChangeTargets, the two
   objects adaptPersonality builds, and all five traits at once *)
ChangesTried ==
  {[t \in {trait} |-> v] : trait \in Traits, v \in ChangeTargets}
  \cup {[t \in {"extraversion", "neuroticism"} |-> IF t = "extraversion" THEN 2 ELSE -1],
        [t \in {"neuroticism"} |-> 1],
        [t \in Traits |-> 150]}

InitPersonality ==
  /\ now = T0
  /\ probe = IdleProbe
  /\ IdleMood /\ IdleMem /\ IdleSoul /\ IdlePlatform
  /\ bigFive \in InitialBigFive
  /\ adaptationRate \in Rates
  /\ persTrace = [updates |-> 0, changes |-> << >>]

UpdateBigFive(changes) ==
  /\ persTrace.updates < MaxTraitUpdates
  /\ bigFive' = updateBigFive(bigFive, changes, adaptationRate)
  /\ persTrace' = [updates |-> persTrace.updates + 1, changes |-> changes]
  /\ UNCHANGED <<now, probe, adaptationRate, moodVars, memVars, soulVars, platVars>>

NextPersonality == \E changes \in ChangesTried : UpdateBigFive(changes)

SpecPersonality == InitPersonality /\ [][NextPersonality]_vars

(* C7: from a trait vector within [0, 100], for every sequence of
   updateBigFive calls with any targets and an adaptation rate in [0, 100],
   each of the five traits stays within [0, 100] *)
C7_TraitBound ==
  \A t \in Traits : 0 <= bigFive[t] /\ bigFive[t] <= T(100)

(* an update toward a target above 100 at rate 100 has been clamped *)
C7_Witness ==
  /\ persTrace.updates > 0
  /\ adaptationRate = 100
  /\ "openness" \in DOMAIN persTrace.changes
  /\ persTrace.changes["openness"] > 100
  /\ bigFive["openness"] = T(100)

(*--------------------------------- Soul ----------------------------------*)
(* A program that makes two Souls, A = new Soul(configA) and
   B = new Soul(), talks to them (respond), lets them reflect and
   loads B, while nothing was called on it yet, from the export of A. *)
MaxSoulOps == 3
MaxResponds == 2
MaxReflects == 1
SoulNames == {"A", "B"}
Configs ==
  {NoConfig,
   [NoConfig EXCEPT !.identity = [name |-> "Luna", role |-> "Friend"],
                    !.initialMood = "curious"]}
Inputs ==
  {[text |-> "I had a really great day at work!", positive |-> 1, negative |-> 0,
    length |-> 33, question |-> FALSE],
   [text |-> "I hate this, it is terrible and awful", positive |-> 0, negative |-> 3,
    length |-> 37, question |-> FALSE],
   [text |-> "How are you?", positive |-> 0, negative |-> 0, length |-> 12,
    question |-> TRUE]}
Participants == {<<"user", "User">>, <<"ann", "Ann">>}
(* who says what *)
Utterances ==
  {u \in Inputs \X Participants :
     (u[1].positive > 0) <=> (u[2][1] = "user")}
Pauses == {0, 40}
TemplateChoices == 1..3

world == [heap |-> heap, traitHeap |-> traitHeap, ctxHeap |-> ctxHeap]
setWorld(w) == /\ heap' = w.heap
               /\ traitHeap' = w.traitHeap
               /\ ctxHeap' = w.ctxHeap

InitSoul ==
  /\ now = T0
  /\ probe = IdleProbe
  /\ IdleMood /\ IdlePers /\ IdlePlatform
  /\ memorySystem = MemorySystem_new(1, 1)
  /\ memTrace = [stores |-> 0, imports |-> 0, explicit |-> 0, fill |-> 50, last |-> "new"]
  /\ \E configA \in Configs, configB \in {NoConfig} :
       LET a == Soul_new("A", configA, [heap |-> << >>, traitHeap |-> << >>,
                                        ctxHeap |-> << >>], T0)
           b == Soul_new("B", configB, a.w, T0)
       IN  /\ souls = [s \in SoulNames |-> IF s = "A" THEN a.soul ELSE b.soul]
           /\ heap = b.w.heap
           /\ traitHeap = b.w.traitHeap
           /\ ctxHeap = b.w.ctxHeap
  /\ soulTrace = IdleSoulTrace

(* s.respond(input, participantId, participantName), pause seconds after the
   call before it; idx is the template Math.random() picks *)
Respond(s, input, participant, idx, pause) ==
  /\ s \in DOMAIN souls
  /\ soulTrace.ops < MaxSoulOps
  /\ soulTrace.responds < MaxResponds
  /\ now' = now + pause
  /\ LET r == Soul_respond(souls[s], world, input, participant[1], participant[2],
                           idx, now')
     IN  /\ souls' = [souls EXCEPT ![s] = r.soul]
         /\ setWorld(r.w)
         \* the template is drawn only when a monologue thought is made
         /\ (r.soul.lastThoughtTime # now') => idx = 1
  /\ soulTrace' = [soulTrace EXCEPT !.ops = @ + 1, !.responds = @ + 1, !.used = @ \cup {s},
                                    !.last = [op |-> "respond", soul |-> s, from |-> ""]]
  /\ UNCHANGED <<probe, moodVars, memorySystem, memTrace, persVars, platVars>>

(* s.reflect() *)
Reflect(s) ==
  /\ s \in DOMAIN souls
  /\ soulTrace.ops < MaxSoulOps
  /\ soulTrace.reflects < Min(MaxReflects, MaxTraitUpdates)
  /\ LET r == Soul_reflect(souls[s], world, now)
     IN  /\ souls' = [souls EXCEPT ![s] = r.soul]
         /\ setWorld(r.w)
  /\ soulTrace' = [soulTrace EXCEPT !.ops = @ + 1, !.reflects = @ + 1, !.used = @ \cup {s},
                                    !.last = [op |-> "reflect", soul |-> s, from |-> ""]]
  /\ UNCHANGED <<now, probe, moodVars, memorySystem, memTrace, persVars, platVars>>

(* b.import(a.export()) on a Soul b on which nothing was called since
   new Soul() *)
Import(b, a) ==
  /\ soulTrace.ops < MaxSoulOps
  /\ a \in DOMAIN souls
  /\ b \in DOMAIN souls
  /\ a # b
  /\ b \notin soulTrace.used
  /\ LET r == Soul_import(souls[b], world, Soul_export(souls[a]))
     IN  /\ souls' = [souls EXCEPT ![b] = r.soul]
         /\ setWorld(r.w)
  /\ soulTrace' = [soulTrace EXCEPT !.ops = @ + 1, !.used = @ \cup {b},
                                    !.last = [op |-> "import", soul |-> b, from |-> a]]
  /\ UNCHANGED <<now, probe, moodVars, memorySystem, memTrace, persVars, platVars>>

NextSoul ==
  \/ \E s \in SoulNames, u \in Utterances, idx \in TemplateChoices, pause \in Pauses :
       Respond(s, u[1], u[2], idx, pause)
  \/ \E s \in SoulNames : Reflect(s)
  \/ Import("B", "A")

SpecSoul == InitSoul /\ [][NextSoul]_vars

memoryCount(soul) == Len(soul.memorySystem.memories)
traitVector(soul) == traitHeap[soul.personalitySystem.config.bigFive]
contextSet(soul) ==
  {ctxHeap[soul.conversationContexts[i]].participantId :
     i \in 1..Len(soul.conversationContexts)}
justImported == soulTrace.last.op = "import"
importTarget == souls[soulTrace.last.soul]
importSource == souls[soulTrace.last.from]

(* C1: round trip.  After B.import(A.export()) on a fresh B, for an A reached
   by respond and reflect calls, B has as many memory records as A, the
   trait vector of A and the conversation contexts (participant ids) of A. *)
C1_RoundTrip ==
  justImported =>
    /\ memoryCount(importTarget) = memoryCount(importSource)
    /\ traitVector(importTarget) = traitVector(importSource)
    /\ contextSet(importTarget) = contextSet(importSource)

(* what the import does reproduce: the trait vector and the context set *)
C1_TraitsAndContexts ==
  justImported =>
    /\ traitVector(importTarget) = traitVector(importSource)
    /\ contextSet(importTarget) = contextSet(importSource)

(* the identity record the constructor of B stored stays in B *)
C1_OneRecordMore ==
  justImported => memoryCount(importTarget) = memoryCount(importSource) + 1

C1_Witness ==
  /\ justImported
  /\ soulTrace.responds > 0
  /\ soulTrace.reflects > 0
  /\ contextSet(importSource) # {}
  /\ traitVector(importSource) # getDefaultBigFive


(*-------------------------------- recall ---------------------------------*)
(* a store of short texts with tags, filled by store calls, queried by
   recall at once or some days later *)
MaxTextStores == 2
cat == <<"c", "a", "t">>
Cats == <<"C", "a", "t", "s">>
Cat == <<"C", "a", "t">>
dog == <<"d", "o", "g">>
cats == <<"c", "a", "t", "s">>
tomcat == <<"t", "o", "m", "c", "a", "t">>
(* content, importance, tags *)
TextRecords ==
  {<<cat, 40, << >> >>, <<Cats, 40, << >> >>, <<dog, 40, << >> >>,
   <<dog, 40, <<cat>> >>, <<dog, 40, <<cat, cats, tomcat>> >>,
   <<dog, 0, << >> >>, <<cat, 0, <<cat>> >>}
Queries == {cat, Cat, << >>}
(* limit, minImportance *)
RecallOptions == {<<10, 0>>, <<1, 0>>, <<0, 0>>, <<10, 20>>}
WaitDays == {1, 25}

NoRecall == [query |-> << >>, limit |-> 0, minImportance |-> 0, result |-> << >>]

InitRecall ==
  /\ now = T0
  /\ probe = IdleProbe
  /\ IdleMood /\ IdlePers /\ IdleSoul /\ IdlePlatform
  /\ \E sc \in 1..2 : memorySystem = MemorySystem_new(sc, 1)
  /\ heap = << >>
  /\ memTrace = [stores |-> 0, imports |-> 0, explicit |-> 0, fill |-> 50, last |-> "new",
                 waited |-> FALSE, recall |-> NoRecall]

(* store(content, 'semantic', importance, 0, tags) *)
StoreText(content, importance, tags) ==
  /\ memTrace.stores < MaxTextStores
  /\ heap' = storeHeap(heap, content, "semantic", R(importance), 0, now, tags)
  /\ memorySystem' = MemorySystem_store(heap', memorySystem, Len(heap'))
  /\ memTrace' = [memTrace EXCEPT !.stores = @ + 1, !.last = "store", !.recall = NoRecall]
  /\ UNCHANGED <<now, probe, moodVars, persVars, soulVars, platVars>>

(* days pass *)
Wait(days) ==
  /\ ~memTrace.waited
  /\ now' = now + days * SecondsPerDay
  /\ memTrace' = [memTrace EXCEPT !.waited = TRUE, !.last = "wait", !.recall = NoRecall]
  /\ UNCHANGED <<probe, memorySystem, heap, moodVars, persVars, soulVars, platVars>>

(* recall(query, limit, minImportance) *)
Recall(query, limit, minImportance) ==
  /\ memTrace' = [memTrace EXCEPT
                    !.last = "recall",
                    !.recall = [query |-> query, limit |-> limit,
                                minImportance |-> minImportance,
                                result |-> MemorySystem_recall(heap, memorySystem, query,
                                             limit, R(minImportance), now)]]
  /\ UNCHANGED <<now, probe, memorySystem, heap, moodVars, persVars, soulVars, platVars>>

NextRecall ==
  \/ \E t \in TextRecords : StoreText(t[1], t[2], t[3])
  \/ \E days \in WaitDays : Wait(days)
  \/ \E query \in Queries, o \in RecallOptions : Recall(query, o[1], o[2])

SpecRecall == InitRecall /\ [][NextRecall]_vars

recalled == memTrace.last = "recall"
position(seq, r) == CHOOSE i \in 1..Len(seq) : seq[i] = r
(* a ranks above b in the result: b is not returned, or a is returned before it,
   and one of them is returned *)
ranksAbove(result, a, b) ==
  /\ a \in Range(result)
  /\ b \in Range(result) => position(result, a) < position(result, b)
(* both records pass the filters of the call and the limit does not cut them *)
comparable(a, b) ==
  /\ inIndex(a) /\ inIndex(b) /\ a # b
  /\ heap[a].importance = heap[b].importance
  /\ heap[a].timestamp = heap[b].timestamp
  /\ heap[a].importance >= R(memTrace.recall.minImportance)
  /\ memTrace.recall.limit >= Len(memorySystem.memories)

(* C11 as stated: a record whose content holds the query verbatim ranks above
   one of equal importance and recency whose content does not, whatever the
   tags *)
C11_ContentMatchRanksFirst ==
  recalled =>
    \A a \in 1..Len(heap), b \in 1..Len(heap) :
      /\ comparable(a, b)
      /\ includes(heap[a].content, memTrace.recall.query)
      /\ ~includes(heap[b].content, memTrace.recall.query)
      => ranksAbove(memTrace.recall.result, a, b)

(* C11, amended: it does when the content of b does not hold the query in
   another letter case either and b has at most one tag holding the query
   more than a has *)
C11_ContentMatchRanksFirstUnlessTags ==
  recalled =>
    \A a \in 1..Len(heap), b \in 1..Len(heap) :
      /\ comparable(a, b)
      /\ includes(heap[a].content, memTrace.recall.query)
      /\ ~includes(lowerCase(heap[b].content), lowerCase(memTrace.recall.query))
      /\ tagMatches(heap[b].tags, memTrace.recall.query)
           <= tagMatches(heap[a].tags, memTrace.recall.query) + 1
      => ranksAbove(memTrace.recall.result, a, b)

C11_Witness ==
  /\ recalled
  /\ \E a \in 1..Len(heap), b \in 1..Len(heap) :
       /\ comparable(a, b)
       /\ a > b
       /\ includes(heap[a].content, memTrace.recall.query)
       /\ ~includes(lowerCase(heap[b].content), lowerCase(memTrace.recall.query))
       /\ tagMatches(heap[b].tags, memTrace.recall.query) = 1
       /\ tagMatches(heap[a].tags, memTrace.recall.query) = 0
       /\ memTrace.recall.result = <<a, b>>


relevanceNow(r) == calculateRelevance(heap[r], memTrace.recall.query, now)
(* what the result of the last recall has to satisfy *)
recallResultOK ==
  LET result == memTrace.recall.result
  IN  /\ Len(result) <= memTrace.recall.limit
      /\ \A i \in 1..Len(result) :
           /\ inIndex(result[i])
           /\ heap[result[i]].importance >= R(memTrace.recall.minImportance)
           /\ relevanceNow(result[i]) > 0
      /\ \A i \in 1..Len(result), j \in 1..Len(result) :
           i < j => relevanceNow(result[i]) >= relevanceNow(result[j])

(* C12: recall returns at most limit records, each of them in the index, of
   importance >= minImportance and of relevance > 0, in non-increasing order
   of relevance, and leaves the index, the two lists and every record as they
   were *)
C12_RecallContract ==
  [][recalled' => /\ recallResultOK'
                  /\ memorySystem' = memorySystem
                  /\ heap' = heap]_vars

C12_Witness ==
  /\ recalled
  /\ memTrace.recall.result # << >>
  /\ \E r \in 1..Len(heap) :
       /\ ~inIndex(r)
       /\ includes(heap[r].content, memTrace.recall.query)
       /\ heap[r].importance >= R(memTrace.recall.minImportance)


(*------------------- associateMemories, strengthenMemory ------------------*)
(* a small store on which store, associateMemories and strengthenMemory are
   called, with the ids of its records, of evicted records and an id that no
   record has *)
MaxGraphOps == 5
MaxGraphStores == 3
GraphImportances == {40, 70}
GraphIds == 1..(MaxGraphStores + 1)
Amounts == {10, 70, -200}

InitGraph ==
  /\ now = T0
  /\ probe = IdleProbe
  /\ IdleMood /\ IdlePers /\ IdleSoul /\ IdlePlatform
  /\ \E sc \in 1..2 : memorySystem = MemorySystem_new(sc, 1)
  /\ heap = << >>
  /\ memTrace = [stores |-> 0, imports |-> 0, explicit |-> 0, fill |-> 50, last |-> "new",
                 ops |-> 0, ids |-> << >>, amount |-> 0]

GraphBudget == memTrace.ops < MaxGraphOps

(* store('memo', 'episodic', importance) *)
StoreNode(importance) ==
  /\ GraphBudget
  /\ memTrace.stores < MaxGraphStores
  /\ heap' = storeHeap(heap, <<"memo">>, "episodic", R(importance), 0, now, << >>)
  /\ memorySystem' = MemorySystem_store(heap', memorySystem, Len(heap'))
  /\ memTrace' = [memTrace EXCEPT !.stores = @ + 1, !.ops = @ + 1, !.last = "store",
                                  !.ids = << >>, !.amount = 0]
  /\ UNCHANGED <<now, probe, moodVars, persVars, soulVars, platVars>>

(* associateMemories(memoryId1, memoryId2) *)
AssociateMemories(memoryId1, memoryId2) ==
  /\ GraphBudget
  /\ heap' = MemorySystem_associateMemories(heap, memorySystem, memoryId1, memoryId2)
  /\ memTrace' = [memTrace EXCEPT !.ops = @ + 1, !.last = "associate",
                                  !.ids = <<memoryId1, memoryId2>>, !.amount = 0]
  /\ UNCHANGED <<now, probe, memorySystem, moodVars, persVars, soulVars, platVars>>

(* strengthenMemory(memoryId, amount) *)
StrengthenMemory(memoryId, amount) ==
  /\ GraphBudget
  /\ heap' = MemorySystem_strengthenMemory(heap, memorySystem, memoryId, R(amount))
  /\ memTrace' = [memTrace EXCEPT !.ops = @ + 1, !.last = "strengthen",
                                  !.ids = <<memoryId>>, !.amount = amount]
  /\ UNCHANGED <<now, probe, memorySystem, moodVars, persVars, soulVars, platVars>>

NextGraph ==
  \/ \E importance \in GraphImportances : StoreNode(importance)
  \/ \E memoryId1 \in GraphIds, memoryId2 \in GraphIds : AssociateMemories(memoryId1, memoryId2)
  \/ \E memoryId \in GraphIds, amount \in Amounts : StrengthenMemory(memoryId, amount)

SpecGraph == InitGraph /\ [][NextGraph]_vars

knownId(id) == MapHas(heap, memorySystem.memories, id)
associated(a, b) == \E i \in 1..Len(heap[a].associations) : heap[a].associations[i] = heap[b].id
noDuplicates(seq) == \A i \in 1..Len(seq), j \in 1..Len(seq) : seq[i] = seq[j] => i = j
associationsOK ==
  \A a \in Range(memorySystem.memories) :
    /\ noDuplicates(heap[a].associations)
    /\ \A b \in Range(memorySystem.memories) : associated(a, b) <=> associated(b, a)

(* C13: after store and associateMemories calls the associations between the
   records of the index are symmetric and no association list holds an id
   twice; a call with an id that is not in the index changes nothing *)
C13_AssociateSymmetricIdempotent ==
  [][/\ associationsOK'
     /\ (memTrace'.last = "associate" /\ \E i \in 1..2 : ~knownId(memTrace'.ids[i]))
          => (heap' = heap /\ memorySystem' = memorySystem)]_vars

C13_Witness ==
  /\ memTrace.last = "associate"
  /\ memTrace.ids[1] # memTrace.ids[2]
  /\ knownId(memTrace.ids[1]) /\ knownId(memTrace.ids[2])
  /\ \E a \in Range(memorySystem.memories) : Len(heap[a].associations) = 2


strengthened == memTrace.last = "strengthen"
(* the record whose id was given to the last strengthenMemory *)
target == MapGet(heap, memorySystem.memories, memTrace.ids[1])

(* what strengthenMemory leaves alone: the index, the lists, every other
   record and every other field; on an unknown id, everything *)
strengthenFrame ==
  /\ memorySystem' = memorySystem
  /\ Len(heap') = Len(heap)
  /\ \A r \in 1..Len(heap) :
       IF knownId(memTrace'.ids[1]) /\ r = target'
       THEN heap'[r] = [heap[r] EXCEPT
                          !.importance = Min(R(100), @ + R(memTrace'.amount))]
       ELSE heap'[r] = heap[r]

(* C14 as stated: strengthenMemory sets the importance of a record of the
   index to min(100, old + amount), which stays within [0, 100] for every
   amount, and changes nothing else; on an unknown id it changes nothing *)
C14_StrengthenContract ==
  [][strengthened' =>
       /\ strengthenFrame
       /\ knownId(memTrace'.ids[1]) =>
            (heap'[target'].importance >= 0 /\ heap'[target'].importance <= R(100))]_vars

(* the part of C14 that the code keeps: the new importance is
   min(100, old + amount) and nothing else changes *)
C14_StrengthenFrame == [][strengthened' => strengthenFrame]_vars

C14_Witness ==
  /\ strengthened
  /\ knownId(memTrace.ids[1])
  /\ memTrace.amount < 0
  /\ heap[target].importance < 0


(*------------------------------ Soul.reflect -----------------------------*)
(* among the 10 most recent memories of soul s, those of emotional weight
   above 30 and those of emotional weight below -30 *)
recentOf(s) == getRecentMemories(heap, souls[s].memorySystem, RecentMemories)
positiveMemories(s) ==
  {i \in 1..Len(recentOf(s)) : heap[recentOf(s)[i]].emotional_weight > R(30)}
negativeMemories(s) ==
  {i \in 1..Len(recentOf(s)) : heap[recentOf(s)[i]].emotional_weight < R(-30)}
traitsOf(s) == traitHeap[souls[s].personalitySystem.config.bigFive]
reflected == soulTrace.last.op = "reflect"

(* C15: a reflect of a soul whose recent memories are in majority positive
   raises its extraversion and lowers its neuroticism; one whose recent
   memories are in majority negative raises its neuroticism *)
C15_ReflectDrift ==
  [][\A s \in SoulNames : (reflected' /\ soulTrace'.last.soul = s) =>
           /\ Cardinality(positiveMemories(s)) > Cardinality(negativeMemories(s))
                => /\ traitsOf(s)'.extraversion > traitsOf(s).extraversion
                   /\ traitsOf(s)'.neuroticism < traitsOf(s).neuroticism
           /\ Cardinality(negativeMemories(s)) > Cardinality(positiveMemories(s))
                => traitsOf(s)'.neuroticism > traitsOf(s).neuroticism]_vars

(* what the code does: every trait it touches moves down, toward the small
   target adaptPersonality passes to updateBigFive *)
C15_ReflectLowersTraits ==
  [][\A s \in SoulNames : (reflected' /\ soulTrace'.last.soul = s) =>
           \A t \in Traits : traitsOf(s)'[t] <= traitsOf(s)[t]]_vars


(*------------------------ generateInternalMonologue ----------------------*)
(* one engine, constructed with any mood, on which generateInternalMonologue,
   updateMood and addThought are called while the clock advances *)
MaxMonologueOps == 4
Elapses == {15, 30}
MonologueStimuli == {<<"negative", 80>>, <<"positive", 40>>}

InitMonologue ==
  /\ now = T0
  /\ probe = IdleProbe
  /\ \E m \in Moods :
       /\ moodEngine = [e \in {1} |-> MoodEngine_new(m, T0)]
       /\ moodTrace = [e \in {1} |-> [calls |-> 0, last |-> "new", before |-> m,
                                      returned |-> << >>, made |-> FALSE]]
  /\ IdleMem /\ IdlePers /\ IdleSoul /\ IdlePlatform

MonologueBudget == moodTrace[1].calls < MaxMonologueOps

(* seconds pass *)
Elapse(seconds) ==
  /\ MonologueBudget
  /\ now' = now + seconds
  /\ moodTrace' = [moodTrace EXCEPT ![1].calls = @ + 1, ![1].last = "elapse",
                                    ![1].made = FALSE]
  /\ UNCHANGED <<probe, moodEngine, memVars, persVars, soulVars, platVars>>

(* generateInternalMonologue(); idx is the template Math.random() picks *)
GenerateInternalMonologue(idx) ==
  /\ MonologueBudget
  /\ LET r == MoodEngine_generateInternalMonologue(moodEngine[1], idx, now)
     IN  /\ moodEngine' = [moodEngine EXCEPT ![1] = r.me]
         /\ moodTrace' = [moodTrace EXCEPT
                            ![1].calls = @ + 1, ![1].last = "generateInternalMonologue",
                            ![1].made = r.made,
                            ![1].returned = IF r.made THEN Append(@, now) ELSE @]
         \* the template is drawn only when a Thought is made
         /\ ~r.made => idx = 1
  /\ UNCHANGED <<now, probe, memVars, persVars, soulVars, platVars>>

(* updateMood({ type, intensity }) *)
Stimulate(type, intensity) ==
  /\ MonologueBudget
  /\ moodEngine' = [moodEngine EXCEPT ![1] = MoodEngine_updateMood(@, type, intensity, now)]
  /\ moodTrace' = [moodTrace EXCEPT ![1].calls = @ + 1, ![1].last = "updateMood",
                                    ![1].made = FALSE]
  /\ UNCHANGED <<now, probe, memVars, persVars, soulVars, platVars>>

(* addThought(content, 'observation') *)
AddThought ==
  /\ MonologueBudget
  /\ moodEngine' = [moodEngine EXCEPT ![1].thoughts =
                      addThought(@, <<"question", "", 0>>, "observation", now)]
  /\ moodTrace' = [moodTrace EXCEPT ![1].calls = @ + 1, ![1].last = "addThought",
                                    ![1].made = FALSE]
  /\ UNCHANGED <<now, probe, memVars, persVars, soulVars, platVars>>

NextMonologue ==
  \/ \E seconds \in Elapses : Elapse(seconds)
  \/ \E idx \in 1..3 : GenerateInternalMonologue(idx)
  \/ \E st \in MonologueStimuli : Stimulate(st[1], st[2])
  \/ AddThought

SpecMonologue == InitMonologue /\ [][NextMonologue]_vars

(* the buffer holds no thought younger than 30 seconds *)
noYoungThought ==
  \A i \in 1..Len(moodEngine[1].thoughts) :
    now - moodEngine[1].thoughts[i].timestamp >= MonologueInterval
returnedApart ==
  \A i \in 1..Len(moodTrace[1].returned), j \in 1..Len(moodTrace[1].returned) :
    i < j => moodTrace[1].returned[j] - moodTrace[1].returned[i] >= MonologueInterval

(* C16: two Thoughts returned by generateInternalMonologue are at least 30
   seconds apart, and a call made when the buffer holds no thought younger
   than 30 seconds returns a Thought, whatever the mood *)
C16_MonologueRateLimit ==
  [][/\ returnedApart'
     /\ (moodTrace'[1].last = "generateInternalMonologue" /\ noYoungThought)
          => moodTrace'[1].made]_vars

C16_Witness ==
  /\ moodTrace[1].last = "generateInternalMonologue"
  /\ moodTrace[1].made
  /\ Len(moodTrace[1].returned) = 2
  /\ moodTrace[1].returned[2] - moodTrace[1].returned[1] = MonologueInterval


(*----------------------------- a conversation ----------------------------*)
(* One Soul, new Soul(), in a long conversation: the user says the same
   thing again and again; at most MaxAsides times something else is said,
   by Ann or by somebody who uses the id of the user under another name. *)
MaxTalks == 12
MaxAsides == 2
great == [text |-> "I had a really great day at work!", positive |-> 1, negative |-> 0,
          length |-> 33, question |-> FALSE]
howAreYou == [text |-> "How are you?", positive |-> 0, negative |-> 0, length |-> 12,
              question |-> TRUE]
(* input, participantId, participantName, seconds since the call before *)
Habit == <<great, "user", "User", 0>>
Asides == {<<howAreYou, "ann", "Ann", 40>>, <<howAreYou, "user", "Ann", 0>>}

InitConversation ==
  /\ now = T0
  /\ probe = IdleProbe
  /\ IdleMood /\ IdlePers /\ IdlePlatform
  /\ memorySystem = MemorySystem_new(1, 1)
  /\ memTrace = [stores |-> 0, imports |-> 0, explicit |-> 0, fill |-> 50, last |-> "new"]
  /\ LET a == Soul_new("A", NoConfig, [heap |-> << >>, traitHeap |-> << >>,
                                       ctxHeap |-> << >>], T0)
     IN  /\ souls = [s \in {"A"} |-> a.soul]
         /\ heap = a.w.heap
         /\ traitHeap = a.w.traitHeap
         /\ ctxHeap = a.w.ctxHeap
  /\ soulTrace = [ops |-> 0, responds |-> 0, reflects |-> 0, used |-> {},
                  last |-> [op |-> "new", soul |-> "", from |-> ""],
                  asides |-> 0, said |-> {}, participantId |-> "", participantName |-> ""]

(* A.respond(input, participantId, participantName) *)
Talk(u, idx, aside) ==
  /\ soulTrace.responds < MaxTalks
  /\ soulTrace.asides + aside <= MaxAsides
  /\ now' = now + u[4]
  /\ LET r == Soul_respond(souls["A"], world, u[1], u[2], u[3], idx, now')
     IN  /\ souls' = [souls EXCEPT !["A"] = r.soul]
         /\ setWorld(r.w)
         \* the template is drawn only when a monologue thought is made
         /\ (r.soul.lastThoughtTime # now') => idx = 1
  /\ soulTrace' = [soulTrace EXCEPT !.responds = @ + 1, !.asides = @ + aside,
                                    !.last = [op |-> "respond", soul |-> "A", from |-> ""],
                                    !.said = @ \cup {<<u[2], u[3]>>},
                                    !.participantId = u[2], !.participantName = u[3]]
  /\ UNCHANGED <<probe, moodVars, memorySystem, memTrace, persVars, platVars>>

NextConversation ==
  \/ \E idx \in TemplateChoices : Talk(Habit, idx, 0)
  \/ \E u \in Asides, idx \in TemplateChoices : Talk(u, idx, 1)

SpecConversation == InitConversation /\ [][NextConversation]_vars

contextsOf(s) == souls[s].conversationContexts
hasContext(id) == ctxHas(ctxHeap, contextsOf("A"), id)
contextOf(id) == ctxHeap[ctxGet(ctxHeap, contextsOf("A"), id)]
(* the history of the participant of the last respond *)
spoken == contextOf(soulTrace.participantId).history
(* the history before the call, or the empty one of a new context, and the
   one after it *)
historyBefore(id) == IF hasContext(id) THEN contextOf(id).history ELSE << >>
lastTwo(h) == SubSeq(h, Len(h) - 1, Len(h))

(* C17 as stated: after a respond the history of the participant holds at
   most 20 entries, and when the two new turns make it exceed 20 it is cut to
   the most recent 10 exchanges, which are 20 entries, in their order *)
C17_HistoryKeepsTenExchanges ==
  [][\A id \in {"user", "ann"} :
       (soulTrace'.last.op = "respond" /\ soulTrace'.participantId = id) =>
         /\ Len(contextOf(id)'.history) <= HistoryLimit
         /\ Len(historyBefore(id)) + 2 > HistoryLimit =>
              contextOf(id)'.history =
                SliceLast(historyBefore(id) \o lastTwo(contextOf(id)'.history),
                          2 * 10)]_vars

(* what the code keeps: 10 entries, which are 5 exchanges *)
C17_HistoryKeepsTenEntries ==
  [][\A id \in {"user", "ann"} :
       (soulTrace'.last.op = "respond" /\ soulTrace'.participantId = id) =>
         /\ Len(contextOf(id)'.history) <= HistoryLimit
         /\ Len(historyBefore(id)) + 2 > HistoryLimit =>
              contextOf(id)'.history =
                SliceLast(historyBefore(id) \o lastTwo(contextOf(id)'.history),
                          HistoryKeep)]_vars

C17_Witness ==
  /\ soulTrace.last.op = "respond"
  /\ Len(spoken) = HistoryKeep
  /\ soulTrace.responds > HistoryKeep


idsSaid == {p[1] : p \in soulTrace.said}
contextIds == {ctxHeap[contextsOf("A")[i]].participantId : i \in 1..Len(contextsOf("A"))}
(* one context per participant id used, and no other *)
oneContextPerId ==
  /\ Len(contextsOf("A")) = Cardinality(idsSaid)
  /\ contextIds = idsSaid

(* C18: a Soul holds one context per participant id it was called with; a
   respond with an id that has a context reuses it, with its relationship
   and name kept and its history continued; a new context starts with the
   relationship "acquaintance" and an empty history; no context is removed *)
C18_ContextsLazyOnePerId ==
  [][/\ oneContextPerId'
     /\ contextIds \subseteq contextIds'
     /\ \A id \in {"user", "ann"} :
          (soulTrace'.last.op = "respond" /\ soulTrace'.participantId = id) =>
            IF hasContext(id)
            THEN /\ ctxGet(ctxHeap, contextsOf("A"), id)
                      = ctxGet(ctxHeap', contextsOf("A")', id)
                 /\ contextOf(id)'.relationship = contextOf(id).relationship
                 /\ contextOf(id)'.participantName = contextOf(id).participantName
                 /\ Len(contextOf(id).history) + 2 <= HistoryLimit =>
                      contextOf(id)'.history =
                        contextOf(id).history \o lastTwo(contextOf(id)'.history)
                 /\ Len(contextsOf("A")') = Len(contextsOf("A"))
            ELSE /\ contextOf(id)'.relationship = "acquaintance"
                 /\ contextOf(id)'.participantName = soulTrace'.participantName
                 /\ Len(contextOf(id)'.history) = 2
                 /\ Len(contextsOf("A")') = Len(contextsOf("A")) + 1]_vars

C18_Witness ==
  /\ Len(contextsOf("A")) = 2
  /\ {<<"user", "User">>, <<"user", "Ann">>} \subseteq soulTrace.said
  /\ soulTrace.participantName = "Ann"
  /\ soulTrace.participantId = "user"
  /\ contextOf("user").participantName = "User"
  /\ Len(contextOf("user").history) > 2


(*--------------------------- sharing between Souls -----------------------*)
(* what a Soul shows of itself: its memory records, its trait vector, its
   emotional state and its conversation contexts *)
memoriesOf(s) ==
  [i \in 1..Len(souls[s].memorySystem.memories) |-> heap[souls[s].memorySystem.memories[i]]]
conversationsOf(s) == [i \in 1..Len(contextsOf(s)) |-> ctxHeap[contextsOf(s)[i]]]
stateOf(s) ==
  [memories |-> memoriesOf(s), traits |-> traitsOf(s),
   emotionalState |-> souls[s].moodEngine.emotionalState,
   contexts |-> conversationsOf(s)]

(* C19: a call on one Soul changes nothing of what another Soul shows, also
   after one of them imported the export of the other *)
C19_NoSharedState ==
  [][\A s \in SoulNames, other \in SoulNames :
       (soulTrace'.last.soul = s /\ soulTrace' # soulTrace /\ other # s)
         => stateOf(other)' = stateOf(other)]_vars

(* without an import the Souls share nothing *)
C19_NoSharedStateBeforeImport ==
  [][\A s \in SoulNames, other \in SoulNames :
       (soulTrace'.last.soul = s /\ soulTrace' # soulTrace /\ other # s
          /\ "B" \notin soulTrace.used)
         => stateOf(other)' = stateOf(other)]_vars


(*--------------------------- DigitalBeingPlatform ------------------------*)
(* The platform keeps a Map of beings and a Map of chat sessions.  What the
   routes do to a being's Soul is recorded as the calls they make on it:
   the respond calls with their arguments, in order, and the reflect calls. *)
MaxRequests == 4
BeingTypes ==
  [aurora |-> "companion", sage |-> "creative", serenity |-> "therapist",
   codemaster |-> "teacher", lyralei |-> "npc"]
newBeing(id, type) ==
  [id |-> id, type |-> type, totalInteractions |-> 0,
   soul |-> [responds |-> << >>, reflects |-> 0]]
initializeDefaultBeings == [id \in DOMAIN BeingTypes |-> newBeing(id, BeingTypes[id])]

OK == 200
NotFound == 404
json(route, id) == [route |-> route, id |-> id, status |-> OK, error |-> "none"]
notFound(route, id, error) ==
  [route |-> route, id |-> id, status |-> NotFound, error |-> error]
hasBeing(p, id) == id \in DOMAIN p.beings
hasSession(p, sessionId) == sessionId \in 1..Len(p.chatSessions)

(* being.soul.respond(input, participantId, participantName) *)
soulRespond(being, input, participantId, participantName) ==
  [being EXCEPT !.soul.responds =
     Append(@, [input |-> input, participantId |-> participantId,
                participantName |-> participantName])]
greetings(type) ==
  IF type \in {"companion", "therapist", "teacher", "creative", "npc"}
    THEN <<"greeting", type>> ELSE <<"greeting", "default">>
generateGreeting(being, userId) == soulRespond(being, greetings(being.type), userId, "User")

(* GET /api/beings/:id *)
Platform_getBeing(p, id) ==
  IF ~hasBeing(p, id)
    THEN [p EXCEPT !.response = notFound("getBeing", id, "Being not found")]
    ELSE [p EXCEPT !.response = json("getBeing", id)]

(* POST /api/chat/start: the session is stored before the being is looked up *)
Platform_chatStart(p, beingId, userId) ==
  LET sessionId == Len(p.chatSessions) + 1
      session == [sessionId |-> sessionId, beingId |-> beingId, userId |-> userId,
                  messages |-> << >>]
      stored == [p EXCEPT !.chatSessions = Append(@, session)]
  IN IF hasBeing(p, beingId)
       THEN [stored EXCEPT
               !.beings[beingId] = generateGreeting(@, userId),
               !.chatSessions[sessionId].messages = Append(@, "being"),
               !.response = json("chatStart", beingId)]
       ELSE [stored EXCEPT !.response = json("chatStart", beingId)]

(* POST /api/chat/message *)
Platform_chatMessage(p, sessionId, message) ==
  IF ~hasSession(p, sessionId)
    THEN [p EXCEPT !.response = notFound("chatMessage", sessionId, "Session not found")]
  ELSE LET session == p.chatSessions[sessionId] IN
    IF ~hasBeing(p, session.beingId)
      THEN [p EXCEPT !.response = notFound("chatMessage", sessionId, "Being not found")]
      ELSE [p EXCEPT
              !.chatSessions[sessionId].messages = Append(Append(@, "user"), "being"),
              !.beings[session.beingId] =
                 [soulRespond(@, message, session.userId, "User")
                    EXCEPT !.totalInteractions = @ + 1],
              !.response = json("chatMessage", sessionId)]

(* POST /api/beings/:id/reflect *)
Platform_reflect(p, id) ==
  IF ~hasBeing(p, id)
    THEN [p EXCEPT !.response = notFound("reflect", id, "Being not found")]
    ELSE [p EXCEPT !.beings[id].soul.reflects = @ + 1,
                   !.response = json("reflect", id)]

(* GET /api/sessions/:sessionId/summary *)
Platform_sessionSummary(p, sessionId) ==
  IF ~hasSession(p, sessionId)
    THEN [p EXCEPT !.response = notFound("sessionSummary", sessionId, "Session not found")]
    ELSE [p EXCEPT !.response = json("sessionSummary", sessionId)]

RequestedBeings == {"aurora", "lyralei", "nobody"}
RequestedSessions == 1..(MaxRequests + 1)
UserIds == {"u1", "u2"}
Messages == {<<"hello">>}
nonPlatformVars ==
  <<now, probe, moodVars, memVars, persVars, soulVars>>

InitPlatform ==
  /\ now = 0 /\ probe = 0
  /\ IdleMood /\ IdleMem /\ IdlePers /\ IdleSoul
  /\ platform = [beings |-> initializeDefaultBeings, chatSessions |-> << >>,
                 response |-> [route |-> "none", id |-> 0, status |-> 0,
                               error |-> "none"],
                 requests |-> 0]

served(p) == [p EXCEPT !.requests = platform.requests + 1]
RequestBudget == platform.requests < MaxRequests

GetBeing(id) ==
  /\ RequestBudget
  /\ platform' = served(Platform_getBeing(platform, id))
  /\ UNCHANGED nonPlatformVars
ChatStart(beingId, userId) ==
  /\ RequestBudget
  /\ platform' = served(Platform_chatStart(platform, beingId, userId))
  /\ UNCHANGED nonPlatformVars
ChatMessage(sessionId, message) ==
  /\ RequestBudget
  /\ platform' = served(Platform_chatMessage(platform, sessionId, message))
  /\ UNCHANGED nonPlatformVars
ReflectBeing(id) ==
  /\ RequestBudget
  /\ platform' = served(Platform_reflect(platform, id))
  /\ UNCHANGED nonPlatformVars
SessionSummary(sessionId) ==
  /\ RequestBudget
  /\ platform' = served(Platform_sessionSummary(platform, sessionId))
  /\ UNCHANGED nonPlatformVars

NextPlatform ==
  \/ \E id \in RequestedBeings : GetBeing(id)
  \/ \E beingId \in RequestedBeings, userId \in UserIds : ChatStart(beingId, userId)
  \/ \E sessionId \in RequestedSessions, message \in Messages :
       ChatMessage(sessionId, message)
  \/ \E id \in RequestedBeings : ReflectBeing(id)
  \/ \E sessionId \in RequestedSessions : SessionSummary(sessionId)
SpecPlatform == InitPlatform /\ [][NextPlatform]_vars

(* what the platform holds: its beings (with the calls made on their Souls
   and their interaction counters) and its chat sessions with their messages *)
platformState == [beings |-> platform.beings, chatSessions |-> platform.chatSessions]
(* the request just served looked up an id the platform did not know *)
unknownLookup(r, p) ==
  \/ r.route \in {"getBeing", "chatStart", "reflect"} /\ ~hasBeing(p, r.id)
  \/ r.route \in {"chatMessage", "sessionSummary"} /\ ~hasSession(p, r.id)
  \/ r.route = "chatMessage" /\ hasSession(p, r.id)
       /\ ~hasBeing(p, p.chatSessions[r.id].beingId)

(* C20: a request that looks up an unknown being or session id is answered
   with NotFound and leaves the beings and the chat sessions as they were *)
C20_NotFound ==
  [][unknownLookup(platform'.response, platform)
       => /\ platform'.response.status = NotFound
          /\ platformState' = platformState]_vars

(* every route but POST /api/chat/start does so *)
C20_NotFoundExceptChatStart ==
  [][(unknownLookup(platform'.response, platform)
        /\ platform'.response.route # "chatStart")
       => /\ platform'.response.status = NotFound
          /\ platformState' = platformState]_vars

(* a session was started for a being the platform does not have *)
C20_SessionForUnknownBeing ==
  /\ platform.response.route = "chatStart"
  /\ platform.response.status = OK
  /\ platform.chatSessions # << >>
  /\ ~hasBeing(platform, platform.chatSessions[Len(platform.chatSessions)].beingId)


(*----------------------------- Soul builders -----------------------------*)
(* A program that makes one Soul from a configuration of its own, calls the
   fluent setters withMood, withPersonality and withEmpathy on it, talks to
   it and loads it from a data object of its own.  The bigFive objects the
   program passes are the first entries of traitHeap. *)
MaxBuilderOps == 3
wideBigFive ==
  [openness |-> T(150), conscientiousness |-> T(65), extraversion |-> T(45),
   agreeableness |-> T(70), neuroticism |-> T(-20)]
narrowBigFive ==
  [openness |-> T(80), conscientiousness |-> T(50), extraversion |-> T(90),
   agreeableness |-> T(0), neuroticism |-> T(100)]
CallerBigFives == <<wideBigFive, narrowBigFive>>
(* 0: no bigFive given *)
BigFiveRefs == 0..Len(CallerBigFives)
(* 0: no empathyLevel given *)
EmpathyLevels == {0, 150, -10}
personalityOf(ref) == [NoConfig.personality EXCEPT !.bigFive = ref]
BuilderInputs == {u \in Inputs : ~u.question}
importData(ref, level) ==
  [id |-> "X", identity |-> [name |-> "Nova", role |-> "Guide"],
   personality |-> personalityOf(ref), memories |-> << >>,
   conversationContexts |-> << >>, empathyLevel |-> level, learningRate |-> 5]

InitBuilder ==
  /\ now = T0
  /\ probe = IdleProbe
  /\ IdleMood /\ IdlePers /\ IdlePlatform
  /\ memorySystem = MemorySystem_new(1, 1)
  /\ memTrace = [stores |-> 0, imports |-> 0, explicit |-> 0, fill |-> 50, last |-> "new"]
  /\ \E ref \in BigFiveRefs, level \in EmpathyLevels :
       LET a == Soul_new("A", [NoConfig EXCEPT !.personality = personalityOf(ref),
                                               !.empathyLevel = level],
                         [heap |-> << >>, traitHeap |-> CallerBigFives,
                          ctxHeap |-> << >>], T0)
       IN  /\ souls = [s \in {"A"} |-> a.soul]
           /\ heap = a.w.heap
           /\ traitHeap = a.w.traitHeap
           /\ ctxHeap = a.w.ctxHeap
  /\ soulTrace = [ops |-> 0, responds |-> 0, reflects |-> 0, used |-> {},
                  last |-> [op |-> "new", soul |-> "A", from |-> ""],
                  mood |-> "", before |-> ""]

builderStep(op, mood) ==
  /\ soulTrace.ops < MaxBuilderOps
  /\ soulTrace' = [soulTrace EXCEPT !.ops = @ + 1,
                                    !.last = [op |-> op, soul |-> "A", from |-> ""],
                                    !.mood = mood,
                                    !.before = getCurrentMood(souls["A"])]
  /\ UNCHANGED <<now, probe, moodVars, memorySystem, memTrace, persVars, platVars>>

(* A.withMood(mood) *)
WithMood(mood) ==
  /\ builderStep("withMood", mood)
  /\ souls' = [souls EXCEPT !["A"] = Soul_withMood(@, mood, now)]
  /\ UNCHANGED <<heap, traitHeap, ctxHeap>>

(* A.withPersonality({ bigFive }) *)
WithPersonality(ref) ==
  /\ builderStep("withPersonality", "")
  /\ LET r == Soul_withPersonality(souls["A"], world, personalityOf(ref))
     IN  /\ souls' = [souls EXCEPT !["A"] = r.soul]
         /\ setWorld(r.w)

(* A.withEmpathy(level) *)
WithEmpathy(level) ==
  /\ builderStep("withEmpathy", "")
  /\ souls' = [souls EXCEPT !["A"] = Soul_withEmpathy(@, level)]
  /\ UNCHANGED <<heap, traitHeap, ctxHeap>>

(* A.import(data) *)
ImportData(ref, level) ==
  /\ builderStep("import", "")
  /\ LET r == Soul_import(souls["A"], world, importData(ref, level))
     IN  /\ souls' = [souls EXCEPT !["A"] = r.soul]
         /\ setWorld(r.w)

(* A.respond(input) *)
BuilderRespond(input) ==
  /\ builderStep("respond", "")
  /\ LET r == Soul_respond(souls["A"], world, input, "user", "User", 1, now)
     IN  /\ souls' = [souls EXCEPT !["A"] = r.soul]
         /\ setWorld(r.w)

NextBuilder ==
  \/ \E mood \in Moods : WithMood(mood)
  \/ \E ref \in BigFiveRefs : WithPersonality(ref)
  \/ \E level \in {-10, 50, 150} : WithEmpathy(level)
  \/ \E ref \in BigFiveRefs, level \in {50, 150} : ImportData(ref, level)
  \/ \E input \in BuilderInputs : BuilderRespond(input)
SpecBuilder == InitBuilder /\ [][NextBuilder]_vars

(* C21: directly after A.withMood(m) the mood of A is m *)
C21_WithMoodSetsMood ==
  soulTrace.last.op = "withMood" => getCurrentMood(souls["A"]) = soulTrace.mood

(* what withMood does: directly after it the mood of A is the classification
   of its emotional scalars, whatever mood was asked for *)
C21_WithMoodClassifies ==
  soulTrace.last.op = "withMood" =>
    getCurrentMood(souls["A"]) = classify(souls["A"].moodEngine.emotionalState)

(* a withMood call that left a mood other than the one asked for *)
C21_MoodNotSet ==
  /\ soulTrace.last.op = "withMood"
  /\ soulTrace.mood = "content"
  /\ getCurrentMood(souls["A"]) = "curious"

(* C23: the five traits and the empathy level of A are within [0,100] in
   every reachable state *)
C23_ConfigurationClamped ==
  /\ \A t \in Traits : traitVector(souls["A"])[t] \in 0..T(100)
  /\ souls["A"].empathyLevel \in 0..100

(* withEmpathy is the one setter that clamps *)
C23_WithEmpathyClamps ==
  soulTrace.last.op = "withEmpathy" => souls["A"].empathyLevel \in 0..100

(* a Soul holding an empathy level and a trait outside [0,100] *)
C23_OutOfRange ==
  /\ souls["A"].empathyLevel = 150
  /\ traitVector(souls["A"]).openness = T(150)


(*------------------------ associations made by respond -------------------*)
(* the input records a Soul stored, by reference *)
inputRecords(s) ==
  {r \in Range(souls[s].memorySystem.memories) :
     heap[r].type = "episodic" /\ heap[r].tags[3] = "input"}
sameSubject(r1, r2) == heap[r1].content[3] = heap[r2].content[3]
reaches(s, r1, r2) ==
  r2 \in Range(MemorySystem_getAssociatedMemories(heap, souls[s].memorySystem, heap[r1].id))

(* C22: two input records of one Soul whose inputs mention the same subject
   are in each other's associations, so that getAssociatedMemories of one
   reaches the other *)
C22_RespondAssociates ==
  \A s \in SoulNames : \A r1, r2 \in inputRecords(s) :
    (r1 # r2 /\ sameSubject(r1, r2)) => reaches(s, r1, r2) /\ reaches(s, r2, r1)

(* respond, reflect and import leave every association array as store made
   it: empty *)
C22_NoAssociationEver ==
  \A s \in SoulNames : \A r \in Range(souls[s].memorySystem.memories) :
    heap[r].associations = << >>

(* a Soul that was told the same thing twice *)
C22_ToldTwice ==
  \E r1, r2 \in inputRecords("A") :
    r1 # r2 /\ sameSubject(r1, r2) /\ ~reaches("A", r1, r2)


(*--------------------------- what respond stores -------------------------*)
(* the step is the call s.respond(u) *)
respondStep(s, u, idx, pause) == Respond(s, u[1], u[2], idx, pause)
(* the mood of s when the stimulus of the input has just been applied *)
moodAfterStimulus(s, input, t) ==
  LET impact == analyzeEmotionalImpact(input)
  IN  MoodEngine_updateMood(souls[s].moodEngine, impact.type, impact.intensity,
                            t).emotionalState.mood
(* what the call returns, computed on the state before it *)
returned(s, u, idx, t) == Soul_respond(souls[s], world, u[1], u[2][1], u[2][2], idx, t).result

(* C24: a respond call stores exactly two new episodic records, the input
   record with the importance and weight of the classifier and then the
   response record with importance 40 and half that weight; it returns the
   input record alone, and the mood it returns, which is the mood the Soul is
   left in, is the mood reached when the input's stimulus was applied *)
C24_RespondStoresTwo ==
  [][\A s \in SoulNames, u \in Utterances, idx \in TemplateChoices, pause \in Pauses :
       respondStep(s, u, idx, pause) =>
         LET impact == analyzeEmotionalImpact(u[1])
             n == Len(heap)
             index == souls[s].memorySystem.memories
             result == returned(s, u, idx, now + pause)
         IN  /\ Len(heap') = n + 2
             /\ SubSeq(heap', 1, n) = heap
             /\ souls'[s].memorySystem.memories = index \o <<n + 1, n + 2>>
             /\ heap'[n + 1].type = "episodic"
             /\ heap'[n + 1].tags[3] = "input"
             /\ heap'[n + 1].importance = impact.importance
             /\ heap'[n + 1].emotional_weight = impact.emotionalWeight
             /\ heap'[n + 2].type = "episodic"
             /\ heap'[n + 2].tags[3] = "response"
             /\ heap'[n + 2].importance = R(40)
             /\ 2 * heap'[n + 2].emotional_weight = impact.emotionalWeight
             /\ result.memories = <<n + 1>>
             /\ result.mood = moodAfterStimulus(s, u[1], now + pause)
             /\ getCurrentMood(souls'[s]) = result.mood]_vars

(* a respond to a negative input that changed the mood and made a thought *)
C24_Witness ==
  /\ soulTrace.last.op = "respond"
  /\ heap[Len(heap) - 1].tags[3] = "input"
  /\ heap[Len(heap) - 1].emotional_weight < 0
  /\ heap[Len(heap)].tags[3] = "response"
  /\ 2 * heap[Len(heap)].emotional_weight = heap[Len(heap) - 1].emotional_weight
  /\ LET me == souls[soulTrace.last.soul].moodEngine
     IN  /\ Len(me.moodHistory) > 1
         /\ me.moodHistory[Len(me.moodHistory)].timestamp = now
         /\ Len(me.thoughts) > 1


(*----------------------------- getResponseStyle --------------------------*)
(* the trait vectors, social batteries and relationship labels tried: every
   threshold of getResponseStyle, the value just past it, and the two vectors
   of the specification *)
ExtraversionGrid == {T(10), T(30) - 1, T(30), T(60), T(60) + 1, T(70), T(70) + 1, T(90)}
ConscientiousnessGrid == {T(50), T(70), T(70) + 1}
AgreeablenessGrid == {T(60), T(60) + 1}
SocialBatteryGrid == {R(30) - 1, R(30), R(60), R(60) + 1, R(70)}
Relationships == {"acquaintance", "friend", "family", "professional"}
NoStyle == [verbosity |-> "none", formality |-> "none"]

InitStyle ==
  /\ now = T0
  /\ probe \in [extraversion : ExtraversionGrid, conscientiousness : ConscientiousnessGrid,
                agreeableness : AgreeablenessGrid, socialBattery : SocialBatteryGrid,
                relationship : Relationships, style : {NoStyle}]
  /\ IdleMood /\ IdleMem /\ IdlePers /\ IdleSoul /\ IdlePlatform

GetResponseStyle ==
  /\ probe.style = NoStyle
  /\ probe' = [probe EXCEPT !.style =
       getResponseStyle([getDefaultBigFive EXCEPT
                           !.extraversion = probe.extraversion,
                           !.conscientiousness = probe.conscientiousness,
                           !.agreeableness = probe.agreeableness],
                        [mood |-> "neutral", energy |-> R(70), stress |-> R(20),
                         confidence |-> R(60), socialBattery |-> probe.socialBattery],
                        probe.relationship)]
  /\ UNCHANGED <<now, moodVars, memVars, persVars, soulVars, platVars>>

SpecStyle == InitStyle /\ [][GetResponseStyle]_vars

(* the verbosity the traits and the social capacity give by themselves *)
baseVerbosity ==
  CASE probe.extraversion > T(70) /\ probe.socialBattery > R(60) -> "verbose"
    [] ~(probe.extraversion > T(70) /\ probe.socialBattery > R(60))
         /\ (probe.extraversion < T(30) \/ probe.socialBattery < R(30)) -> "concise"
    [] OTHER -> "moderate"

(* C25: verbosity is verbose if extraversion > 70 and socialCapacity > 60,
   else concise if extraversion < 30 or socialCapacity < 30, else moderate;
   friend and family then force formality casual and raise a concise
   verbosity to moderate, and professional forces formality formal *)
C25_VerbosityFormality ==
  probe.style # NoStyle =>
    /\ probe.relationship \in {"friend", "family"} =>
         /\ probe.style.formality = "casual"
         /\ probe.style.verbosity =
              (IF baseVerbosity = "concise" THEN "moderate" ELSE baseVerbosity)
    /\ probe.relationship \notin {"friend", "family"} =>
         probe.style.verbosity = baseVerbosity
    /\ probe.relationship = "professional" => probe.style.formality = "formal"
    /\ (probe.extraversion = T(90) /\ probe.socialBattery = R(70)) =>
         probe.style.verbosity = "verbose"
    /\ (probe.extraversion = T(10) /\ probe.relationship \notin {"friend", "family"}) =>
         probe.style.verbosity = "concise"

(* an introvert talking to a friend: concise raised to moderate, casual *)
C25_Witness ==
  /\ probe.style # NoStyle
  /\ probe.extraversion = T(10)
  /\ probe.conscientiousness = T(70) + 1
  /\ probe.relationship = "friend"
  /\ probe.style = [verbosity |-> "moderate", formality |-> "casual"]


(*---------------------- the buffers of the MoodEngine --------------------*)
(* A program that keeps one engine swaying between two moods, one updateMood
   call a second: a mild negative stimulus while stress is below 30, a
   positive one otherwise.  Every call that changes the mood adds a history
   entry and an emotion thought.  When the thought buffer is nearly full the
   program may add a thought of its own. *)
MaxSways == 210
MaxExtraThoughts == 2
swayStimulus(es) == IF es.stress < R(30) THEN <<"negative", 25>> ELSE <<"positive", 50>>

InitBuffers ==
  /\ now = T0
  /\ probe = IdleProbe
  /\ moodEngine = [e \in {1} |-> MoodEngine_new("neutral", T0)]
  /\ moodTrace = [e \in {1} |-> [calls |-> 0, last |-> "new", before |-> "neutral",
                                 extra |-> 0]]
  /\ IdleMem /\ IdlePers /\ IdleSoul /\ IdlePlatform

(* updateMood(stimulus), one second after the call before *)
Sway ==
  /\ moodTrace[1].calls < MaxSways
  /\ now' = now + 1
  /\ LET st == swayStimulus(moodEngine[1].emotionalState)
     IN  moodEngine' = [moodEngine EXCEPT ![1] = MoodEngine_updateMood(@, st[1], st[2], now')]
  /\ moodTrace' = [moodTrace EXCEPT ![1].calls = @ + 1, ![1].last = "updateMood",
                                    ![1].before = moodEngine[1].emotionalState.mood]
  /\ UNCHANGED <<probe, memVars, persVars, soulVars, platVars>>

(* addThought(content, 'observation'), one second after the call before *)
ExtraThought ==
  /\ moodTrace[1].calls < MaxSways
  /\ moodTrace[1].extra < MaxExtraThoughts
  /\ Len(moodEngine[1].thoughts) >= ThoughtCap - 1
  /\ now' = now + 1
  /\ moodEngine' = [moodEngine EXCEPT ![1].thoughts =
                      addThought(@, <<"question", "", 0>>, "observation", now')]
  /\ moodTrace' = [moodTrace EXCEPT ![1].calls = @ + 1, ![1].last = "addThought",
                                    ![1].extra = @ + 1,
                                    ![1].before = moodEngine[1].emotionalState.mood]
  /\ UNCHANGED <<probe, memVars, persVars, soulVars, platVars>>

NextBuffers == Sway \/ ExtraThought
SpecBuffers == InitBuffers /\ [][NextBuffers]_vars

(* buffer after an append: all of it up to cap entries, the keep most recent
   ones in their order beyond *)
appendedAndCut(before, after, cap, keep) ==
  LET all == Append(before, after[Len(after)])
  IN  after = IF Len(all) > cap THEN SubSeq(all, Len(all) - keep + 1, Len(all)) ELSE all

(* C26: the thought buffer never holds more than 100 thoughts and the mood
   history never more than 200 entries; an append that makes the thought
   buffer exceed 100 leaves exactly the 50 most recent thoughts, one that
   makes the history exceed 200 leaves exactly the 100 most recent entries,
   in insertion order *)
C26_BoundedBuffers ==
  [][/\ Len(moodEngine'[1].thoughts) <= 100
     /\ Len(moodEngine'[1].moodHistory) <= 200
     /\ moodEngine'[1].thoughts # moodEngine[1].thoughts =>
          appendedAndCut(moodEngine[1].thoughts, moodEngine'[1].thoughts, 100, 50)
     /\ moodEngine'[1].moodHistory # moodEngine[1].moodHistory =>
          appendedAndCut(moodEngine[1].moodHistory, moodEngine'[1].moodHistory, 200, 100)
    ]_vars

(* the history has just been cut to 100 entries, and the thought buffer,
   cut before, holds only thoughts made well after the start *)
C26_Witness ==
  /\ moodTrace[1].calls > 200
  /\ Len(moodEngine[1].moodHistory) = 100
  /\ moodEngine[1].moodHistory[100].timestamp = now
  /\ Len(moodEngine[1].thoughts) \in 50..100
  /\ moodEngine[1].thoughts[1].timestamp > T0 + 100
  /\ moodTrace[1].extra = 2


(*------------------------------- promotion -------------------------------*)
(* The store and strengthenMemory calls of the association program, on a
   store whose long-term list may also have no room at all. *)
InitPromotion ==
  /\ now = T0
  /\ probe = IdleProbe
  /\ IdleMood /\ IdlePers /\ IdleSoul /\ IdlePlatform
  /\ \E sc \in 1..2, lc \in 0..1 : memorySystem = MemorySystem_new(sc, lc)
  /\ heap = << >>
  /\ memTrace = [stores |-> 0, imports |-> 0, explicit |-> 0, fill |-> 50, last |-> "new",
                 ops |-> 0, ids |-> << >>, amount |-> 0]

NextPromotion ==
  \/ \E importance \in GraphImportances : StoreNode(importance)
  \/ \E memoryId \in GraphIds, amount \in Amounts : StrengthenMemory(memoryId, amount)

SpecPromotion == InitPromotion /\ [][NextPromotion]_vars

indexed(ms, r) == r \in Range(ms.memories)
shortTermHolds(ms, r) == r \in Range(ms.shortTermMemory)
longTermHolds(ms, r) == r \in Range(ms.longTermMemory)
(* the records the step removed from the short-term list *)
removedFromShortTerm(r) == shortTermHolds(memorySystem, r) /\ ~shortTermHolds(memorySystem', r)
forgotten(ms, r) == ~indexed(ms, r) /\ ~shortTermHolds(ms, r) /\ ~longTermHolds(ms, r)
heads(list, r) == list # << >> /\ list[1] = r

(* C27 as stated: a record that consolidation removes from the short-term
   list is at the front of the long-term list and in the index afterwards if
   its importance is at least 60 at that moment, and is otherwise in neither
   list and not in the index *)
C27_PromotionRule ==
  [][\A r \in 1..Len(heap) : removedFromShortTerm(r) =>
       IF heap[r].importance >= R(60)
       THEN heads(memorySystem'.longTermMemory, r) /\ indexed(memorySystem', r)
       ELSE forgotten(memorySystem', r)]_vars

(* C27 with the long-term capacity taken into account: a promoted record
   stays when the long-term list has room for at least one record, and is
   forgotten at once when its capacity is 0 *)
C27_PromotionRuleWithRoom ==
  [][\A r \in 1..Len(heap) : removedFromShortTerm(r) =>
       IF heap[r].importance >= R(60) /\ memorySystem.maxLongTermSize >= 1
       THEN heads(memorySystem'.longTermMemory, r) /\ indexed(memorySystem', r)
       ELSE forgotten(memorySystem', r)]_vars

(* a record stored with importance 40 and strengthened twice by 10 has just
   been promoted, pushing an older record out of the long-term list *)
C27_Witness ==
  /\ memTrace.last = "store"
  /\ memorySystem.maxLongTermSize = 1
  /\ memorySystem.longTermMemory # << >>
  /\ heap[memorySystem.longTermMemory[1]].importance = R(60)
  /\ indexed(memorySystem, memorySystem.longTermMemory[1])
  /\ Len(heap) = 3
  /\ ~indexed(memorySystem, 1)


(*----------------------------- eviction by age ---------------------------*)
(* The store and import calls of the MemorySystem program with time passing
   between the calls: a record imported from elsewhere was created there
   shortly before the import, after the records the store made earlier. *)
MaxPasses == 2

(* a second passes *)
Pass ==
  /\ now < T0 + MaxPasses
  /\ now' = now + 1
  /\ UNCHANGED <<probe, moodVars, memVars, persVars, soulVars, platVars>>

NextAge ==
  \/ \E inp \in {<<40, 0>>, <<60, 50>>} : Store(inp[1], inp[2])
  \/ \E batch \in ImportBatches : ImportForeign(batch)
  \/ ImportExport
  \/ Pass

SpecAge == InitMem /\ [][NextAge]_vars

(* the Memory objects the step created *)
created == (Len(heap) + 1)..Len(heap')
(* the records the step put into the short-term list, and into the long-term
   list, before it cut the lists to their capacities *)
enteredShortTerm ==
  {r \in created : memTrace'.last = "store" \/ heap'[r].importance < R(60)}
enteredLongTerm ==
  {r \in created : memTrace'.last = "import" /\ heap'[r].importance >= R(60)}
    \cup {r \in Range(memorySystem.shortTermMemory) \cup enteredShortTerm :
            /\ r \notin Range(memorySystem'.shortTermMemory)
            /\ heap'[r].importance >= R(60)}
(* every record cut from the list is at least as old as every record kept *)
oldestCut(before, entered, after) ==
  \A r \in (Range(before) \cup entered) \ Range(after) : \A q \in Range(after) :
    heap'[r].timestamp <= heap'[q].timestamp
evictionByAge ==
  /\ oldestCut(memorySystem.shortTermMemory, enteredShortTerm,
               memorySystem'.shortTermMemory)
  /\ oldestCut(memorySystem.longTermMemory, enteredLongTerm,
               memorySystem'.longTermMemory)

(* C28: in every state reachable by store and import calls, the records that
   consolidation cuts from a list over its capacity are the oldest ones of
   that list by creation timestamp: no newer record is cut while an older
   one stays *)
C28_EvictionByAge == [][evictionByAge]_vars

(* as long as no import was made, the cut records are the oldest ones *)
C28_StoresEvictOldest == [][memTrace'.imports = 0 => evictionByAge]_vars

(* an import has just lost a record that is newer than one the short-term
   list keeps *)
C28_NewerRecordCut ==
  /\ memTrace.last = "import"
  /\ memorySystem.shortTermMemory # << >>
  /\ \E r \in 1..Len(heap) :
       /\ r \notin Range(memorySystem.memories)
       /\ heap[r].importance < R(60)
       /\ heap[r].timestamp > heap[memorySystem.shortTermMemory[1]].timestamp


(*------------------- history entries and emotion thoughts ----------------*)
(* the step is a call of the named method on engine e *)
callOf(e, name) ==
  moodTrace'[e].calls = moodTrace[e].calls + 1 /\ moodTrace'[e].last = name
(* the mood the scalars after the call classify as differs from the mood
   before the call *)
moodChanged(e) ==
  classify(moodEngine'[e].emotionalState) # moodEngine[e].emotionalState.mood
oneEntryMore(e) ==
  moodEngine'[e].moodHistory =
    Append(moodEngine[e].moodHistory,
           [mood |-> classify(moodEngine'[e].emotionalState), timestamp |-> now])
oneEmotionThoughtMore(e) ==
  /\ Len(moodEngine'[e].thoughts) = Len(moodEngine[e].thoughts) + 1
  /\ SubSeq(moodEngine'[e].thoughts, 1, Len(moodEngine[e].thoughts)) = moodEngine[e].thoughts
  /\ moodEngine'[e].thoughts[Len(moodEngine'[e].thoughts)].type = "emotion"

(* C29: updateMood adds exactly one history entry and exactly one thought of
   type emotion when the newly classified mood differs from the mood before
   the call, and changes neither buffer otherwise; simulateTimePassage adds
   the history entry under the same condition and never a thought *)
C29_HistoryAndThoughtOnChange ==
  [][\A e \in DOMAIN moodEngine :
       /\ callOf(e, "updateMood") =>
            IF moodChanged(e)
            THEN oneEntryMore(e) /\ oneEmotionThoughtMore(e)
            ELSE /\ moodEngine'[e].moodHistory = moodEngine[e].moodHistory
                 /\ moodEngine'[e].thoughts = moodEngine[e].thoughts
       /\ callOf(e, "simulateTimePassage") =>
            /\ moodEngine'[e].thoughts = moodEngine[e].thoughts
            /\ IF moodChanged(e) THEN oneEntryMore(e)
               ELSE moodEngine'[e].moodHistory = moodEngine[e].moodHistory]_vars

(* an updateMood call has just changed the mood, after a simulateTimePassage
   call had changed it without a thought *)
C29_Witness ==
  /\ moodTrace[1].last = "updateMood"
  /\ moodTrace[1].before # moodEngine[1].emotionalState.mood
  /\ Len(moodEngine[1].moodHistory) = 3
  /\ Len(moodEngine[1].thoughts) = 1
  /\ moodEngine[1].thoughts[1].type = "emotion"


(*------------------------ the step of updateBigFive ----------------------*)
between(x, a, b) == (a <= x /\ x <= b) \/ (b <= x /\ x <= a)
clamp(x) == IF x < 0 THEN 0 ELSE IF x > T(100) THEN T(100) ELSE x
(* current + (goal - current) * rate / 100, which is an integer number of
   trait units for the rates and the number of updates tried *)
movedToward(current, goal, rate) == current + ((goal - current) * rate) \div 100
exactStep(current, goal, rate) ==
  100 * (movedToward(current, goal, rate) - current) = (goal - current) * rate

(* C30: an updateBigFive call makes each trait it names
   clamp(current + (target - current) * rate / 100): the new value lies
   between the old one and the target, at a rate below 100 it equals the
   target only if the trait was already there or the clamp applied, and the
   traits it does not name are unchanged *)
C30_MovingAverageStep ==
  [][persTrace'.updates = persTrace.updates + 1 =>
       \A t \in Traits :
         IF t \in DOMAIN persTrace'.changes
         THEN LET goal == T(persTrace'.changes[t])
                  raw == movedToward(bigFive[t], goal, adaptationRate)
              IN  /\ exactStep(bigFive[t], goal, adaptationRate)
                  /\ bigFive'[t] = clamp(raw)
                  /\ between(bigFive'[t], bigFive[t], goal)
                  /\ (adaptationRate < 100 /\ bigFive'[t] = goal)
                       => (bigFive[t] = goal \/ raw # clamp(raw))
         ELSE bigFive'[t] = bigFive[t]]_vars

(* two updates at rate 5 toward the targets adaptPersonality passes: the
   extraversion of 45 is at 40.8075, the traits not named where they were *)
C30_Witness ==
  /\ persTrace.updates = 2
  /\ adaptationRate = 5
  /\ DOMAIN persTrace.changes = {"extraversion", "neuroticism"}
  /\ bigFive.extraversion = 16323
  /\ bigFive.openness = T(60)


(*------------------------- return to the baseline ------------------------*)
(* An engine is brought into some state by at most MaxDisturbances calls of
   any kind and is then given neutral stimuli only, at most MaxNeutrals of
   them: 20 steps of 3 cover the longest way there is, confidence from 0 to
   60.  The field quiet of the trace is 0 while the engine is disturbed and
   counts the neutral stimuli afterwards. *)
MaxDisturbances == 2
MaxNeutrals == 20
NeutralIntensities == {0, 50}

BaselineEnergy == 70
BaselineStress == 20
BaselineConfidence == 60
EnergyStep == 5
StressStep == 5
ConfidenceStep == 3

InitBaseline ==
  /\ now = T0
  /\ probe = IdleProbe
  /\ \E m \in InitialMoods :
       /\ moodEngine = [e \in {1} |-> MoodEngine_new(m, T0)]
       /\ moodTrace = [e \in {1} |-> [calls |-> 0, last |-> "new", before |-> m,
                                     quiet |-> 0]]
  /\ IdleMem /\ IdlePers /\ IdleSoul /\ IdlePlatform

disturbed(name) ==
  [moodTrace EXCEPT ![1] = [calls |-> @.calls + 1, last |-> name,
                            before |-> moodEngine[1].emotionalState.mood,
                            quiet |-> 0]]
Disturbing == moodTrace[1].quiet = 0 /\ moodTrace[1].calls < MaxDisturbances

DisturbByStimulus(type, intensity) ==
  /\ Disturbing
  /\ moodEngine' = [moodEngine EXCEPT ![1] = MoodEngine_updateMood(@, type, intensity, now)]
  /\ moodTrace' = disturbed("updateMood")
  /\ UNCHANGED <<now, probe, memVars, persVars, soulVars, platVars>>

DisturbByTime(minutes) ==
  /\ Disturbing
  /\ moodEngine' = [moodEngine EXCEPT ![1] = MoodEngine_simulateTimePassage(@, minutes, now)]
  /\ moodTrace' = disturbed("simulateTimePassage")
  /\ UNCHANGED <<now, probe, memVars, persVars, soulVars, platVars>>

DisturbByBattery(change) ==
  /\ Disturbing
  /\ moodEngine' = [moodEngine EXCEPT ![1] = MoodEngine_adjustSocialBattery(@, change)]
  /\ moodTrace' = disturbed("adjustSocialBattery")
  /\ UNCHANGED <<now, probe, memVars, persVars, soulVars, platVars>>

(* updateMood({type: 'neutral', intensity}), from the first one on nothing else *)
NeutralStimulus ==
  /\ moodTrace[1].quiet < MaxNeutrals
  /\ \E intensity \in NeutralIntensities :
       moodEngine' = [moodEngine EXCEPT ![1] = MoodEngine_updateMood(@, "neutral", intensity, now)]
  /\ moodTrace' = [moodTrace EXCEPT ![1].last = "updateMood",
                                    ![1].before = moodEngine[1].emotionalState.mood,
                                    ![1].quiet = @ + 1]
  /\ UNCHANGED <<now, probe, memVars, persVars, soulVars, platVars>>

NextBaseline ==
  \/ \E st \in Stimuli : DisturbByStimulus(st[1], st[2])
  \/ \E m \in Minutes : DisturbByTime(m)
  \/ \E c \in BatteryChanges : DisturbByBattery(c)
  \/ NeutralStimulus

(* the neutral stimuli keep coming as long as the model supplies them *)
SpecBaseline == InitBaseline /\ [][NextBaseline]_vars /\ WF_vars(NeutralStimulus)

distance(a, b) == IF a < b THEN b - a ELSE a - b
oneStepToward(old, new, baseline, step) ==
  /\ between(new, old, R(baseline))
  /\ distance(new, old) = Min(R(step), distance(old, R(baseline)))
atBaseline ==
  /\ moodEngine[1].emotionalState.energy = R(BaselineEnergy)
  /\ moodEngine[1].emotionalState.stress = R(BaselineStress)
  /\ moodEngine[1].emotionalState.confidence = R(BaselineConfidence)
neutralStep == moodTrace'[1].quiet = moodTrace[1].quiet + 1

(* C31: each neutral stimulus moves energy, stress and confidence one step of
   5, 5 and 3 toward 70, 20 and 60 without passing them and leaves
   socialBattery as it was; neutral stimuli alone lead to exactly
   (70, 20, 60), and a neutral stimulus given there changes none of them *)
C31_ReturnToBaseline ==
  /\ [][neutralStep =>
          LET old == moodEngine[1].emotionalState
              new == moodEngine'[1].emotionalState
          IN  /\ oneStepToward(old.energy, new.energy, BaselineEnergy, EnergyStep)
              /\ oneStepToward(old.stress, new.stress, BaselineStress, StressStep)
              /\ oneStepToward(old.confidence, new.confidence, BaselineConfidence,
                               ConfidenceStep)
              /\ new.socialBattery = old.socialBattery
              /\ atBaseline => atBaseline']_vars
  /\ (moodTrace[1].quiet > 0) ~> atBaseline
  /\ <>[]atBaseline

(* neutral stimuli have brought an engine to the baseline from a stress of
   100 and a confidence of 30, sixteen steps away, and more of them have
   followed *)
C31_Witness ==
  /\ moodTrace[1].quiet = MaxNeutrals
  /\ moodTrace[1].calls = 2
  /\ atBaseline
  /\ \E i \in 1..Len(moodEngine[1].moodHistory) :
       moodEngine[1].moodHistory[i].mood = "frustrated"


(*------------------------------ trait drift ------------------------------*)
DriftMinutes == {30, 600}

(* s.simulateTimePassage(minutes) *)
SoulTimePassage(s, minutes, thinks, idx) ==
  /\ s \in DOMAIN souls
  /\ soulTrace.ops < MaxSoulOps
  /\ souls' = [souls EXCEPT ![s] = Soul_simulateTimePassage(@, minutes, thinks, idx, now)]
  \* the template is drawn only when a monologue thought is made
  /\ (Len(souls'[s].moodEngine.thoughts) = Len(souls[s].moodEngine.thoughts)) => idx = 1
  /\ soulTrace' = [soulTrace EXCEPT !.ops = @ + 1, !.used = @ \cup {s},
                                    !.last = [op |-> "simulateTimePassage", soul |-> s,
                                              from |-> ""]]
  /\ UNCHANGED <<now, probe, moodVars, memVars, persVars, traitHeap, heap, ctxHeap, platVars>>

(* the calls are made on soul A, next to a soul B that nothing is called on *)
NextDrift ==
  \/ \E u \in Utterances, idx \in TemplateChoices, pause \in Pauses :
       Respond("A", u[1], u[2], idx, pause)
  \/ Reflect("A")
  \/ \E m \in DriftMinutes, thinks \in BOOLEAN, idx \in TemplateChoices :
       SoulTimePassage("A", m, thinks, idx)

SpecDrift == InitSoul /\ [][NextDrift]_vars

personalityOfSoul(s) == souls[s].personalitySystem
(* the target adaptPersonality gives for trait t of soul s *)
adaptationTarget(s, t) ==
  IF t = "extraversion" THEN 2
  ELSE IF Cardinality(positiveMemories(s)) > Cardinality(negativeMemories(s)) THEN -1 ELSE 1

(* C32: respond and simulateTimePassage leave every trait vector as it was;
   a reflect changes extraversion and neuroticism of the reflecting soul at
   most, changes nothing when as many recent memories weigh more than 30 as
   weigh less than -30, and moves a trait by at most adaptationRate percent
   of its distance to the target *)
C32_TraitsDriftByAdaptation ==
  [][soulTrace'.ops = soulTrace.ops + 1 =>
       /\ \A s \in SoulNames : personalityOfSoul(s)' = personalityOfSoul(s)
       /\ soulTrace'.last.op \in {"respond", "simulateTimePassage"} =>
            traitHeap' = traitHeap
       /\ \A s \in SoulNames : (reflected' /\ soulTrace'.last.soul = s) =>
            /\ \A ref \in DOMAIN traitHeap :
                 ref # personalityOfSoul(s).config.bigFive => traitHeap'[ref] = traitHeap[ref]
            /\ \A t \in Traits \ {"extraversion", "neuroticism"} :
                 traitsOf(s)'[t] = traitsOf(s)[t]
            /\ Cardinality(positiveMemories(s)) = Cardinality(negativeMemories(s))
                 => traitsOf(s)' = traitsOf(s)
            /\ \A t \in {"extraversion", "neuroticism"} :
                 distance(traitsOf(s)'[t], traitsOf(s)[t]) * 100
                   <= personalityOfSoul(s).adaptationRate
                        * distance(traitsOf(s)[t], T(adaptationTarget(s, t)))]_vars

(* a soul has reflected with recent memories in majority positive, after a
   respond and a simulateTimePassage: its extraversion moved from 45 by 5
   percent of the way to 2, its openness stayed *)
C32_Witness ==
  /\ reflected
  /\ soulTrace.responds > 0
  /\ soulTrace.ops = 3
  /\ \E s \in SoulNames :
       /\ soulTrace.last.soul = s
       /\ traitsOf(s).extraversion = T(45) - (T(43) * 5) \div 100
       /\ traitsOf(s).openness = T(60)
       /\ souls[s].moodEngine.emotionalState.socialBattery = R(100)


(*--------------------------- index and lists -----------------------------*)
(* how often a record of the given id is in a list *)
occurrences(list, id) == Cardinality({i \in 1..Len(list) : heap[list[i]].id = id})
(* getStats(): totalMemories, shortTermCount, longTermCount *)
getStats ==
  [totalMemories |-> Len(memorySystem.memories),
   shortTermCount |-> Len(memorySystem.shortTermMemory),
   longTermCount |-> Len(memorySystem.longTermMemory)]

(* C33: every record of the index is in exactly one of the two lists,
   exactly once, every list entry is in the index, and getStats reports
   totalMemories = shortTermCount + longTermCount *)
C33_IndexAndListsAgree ==
  /\ \A i \in 1..Len(memorySystem.memories) :
       occurrences(memorySystem.shortTermMemory, heap[memorySystem.memories[i]].id)
         + occurrences(memorySystem.longTermMemory, heap[memorySystem.memories[i]].id) = 1
  /\ \A i \in 1..Len(memorySystem.shortTermMemory) :
       MapHas(heap, memorySystem.memories, heap[memorySystem.shortTermMemory[i]].id)
  /\ \A i \in 1..Len(memorySystem.longTermMemory) :
       MapHas(heap, memorySystem.memories, heap[memorySystem.longTermMemory[i]].id)
  /\ getStats.totalMemories = getStats.shortTermCount + getStats.longTermCount


(*------------------------- the long-term list ----------------------------*)
(* store, strengthenMemory with an amount that is not negative, and import,
   of records made elsewhere and of the store's own export *)
Strengthenings == {a \in Amounts : a >= 0}
MaxLongTermOps == 3
LongTermBudget == memTrace.ops + memTrace.imports < MaxLongTermOps

NextLongTerm ==
  /\ LongTermBudget
  /\ \/ \E importance \in GraphImportances : StoreNode(importance)
     \/ \E memoryId \in GraphIds, amount \in Strengthenings :
          StrengthenMemory(memoryId, amount)
     \/ \E batch \in ImportBatches : ImportForeign(batch)
     \/ ImportExport

SpecLongTerm == InitPromotion /\ [][NextLongTerm]_vars

(* C34: every record in the long-term list has importance >= 60 *)
C34_LongTermImportant ==
  \A i \in 1..Len(memorySystem.longTermMemory) :
    heap[memorySystem.longTermMemory[i]].importance >= R(PromotionThreshold)

(* a record imported with importance 70 went to the long-term list and was
   strengthened there, after a store *)
C34_Witness ==
  /\ memTrace.stores > 0
  /\ memTrace.imports > 0
  /\ memTrace.last = "strengthen"
  /\ \E i \in 1..Len(memorySystem.longTermMemory) :
       /\ heap[memorySystem.longTermMemory[i]].content = <<"imported">>
       /\ heap[memorySystem.longTermMemory[i]].importance = R(80)


(*------------------------ associations and eviction ----------------------*)
(* store and associateMemories calls only *)
NextAssociate ==
  \/ \E importance \in GraphImportances : StoreNode(importance)
  \/ \E memoryId1 \in GraphIds, memoryId2 \in GraphIds : AssociateMemories(memoryId1, memoryId2)

SpecAssociate == InitGraph /\ [][NextAssociate]_vars

(* C35: every id in the association array of a record of the index is the id
   of a record of the index *)
C35_NoDanglingAssociations ==
  \A i \in 1..Len(memorySystem.memories) :
    LET memory == heap[memorySystem.memories[i]]
    IN  \A k \in 1..Len(memory.associations) :
          MapHas(heap, memorySystem.memories, memory.associations[k])

(* what the code keeps: getAssociatedMemories returns records of the index
   only, and every id in an association array is the id of a record that was
   stored *)
C35_AssociatedAreIndexed ==
  \A i \in 1..Len(memorySystem.memories) :
    LET memory == heap[memorySystem.memories[i]]
        got == MemorySystem_getAssociatedMemories(heap, memorySystem, memory.id)
    IN  /\ \A k \in 1..Len(got) : MapHas(heap, memorySystem.memories, heap[got[k]].id)
        /\ \A k \in 1..Len(memory.associations) : memory.associations[k] \in 1..Len(heap)


(*------------------------------ one entity -------------------------------*)
(* One Soul, made by new Soul(config), on which respond, reflect,
   simulateTimePassage and the fluent setters are called. *)
emptyInput == [text |-> "", positive |-> 0, negative |-> 0, length |-> 0, question |-> FALSE]
(* a long text with every positive word of the lexicon in it *)
gushingInput ==
  [text |-> "happy good great wonderful amazing love like fantastic ...",
   positive |-> 8, negative |-> 0, length |-> 300, question |-> FALSE]
(* as many positive as negative words, an odd number of characters *)
mixedInput ==
  [text |-> "good, bad, who knows", positive |-> 1, negative |-> 1, length |-> 21,
   question |-> TRUE]
EntityInputs == {emptyInput, gushingInput, mixedInput} \cup {u \in Inputs : u.negative > 0}
(* withIdentity({ name: 'Nova' }): the role is not given *)
Identities == {[name |-> "Nova", role |-> ""]}
EntityMinutes == {600}

InitEntity ==
  /\ now = T0
  /\ probe = IdleProbe
  /\ IdleMood /\ IdlePers /\ IdlePlatform
  /\ memorySystem = MemorySystem_new(1, 1)
  /\ memTrace = [stores |-> 0, imports |-> 0, explicit |-> 0, fill |-> 50, last |-> "new"]
  /\ \E config \in Configs :
       LET a == Soul_new("A", config, [heap |-> << >>, traitHeap |-> CallerBigFives,
                                       ctxHeap |-> << >>], T0)
       IN  /\ souls = [s \in {"A"} |-> a.soul]
           /\ heap = a.w.heap
           /\ traitHeap = a.w.traitHeap
           /\ ctxHeap = a.w.ctxHeap
  /\ soulTrace = [ops |-> 0, responds |-> 0, reflects |-> 0, used |-> {},
                  last |-> [op |-> "new", soul |-> "A", from |-> ""],
                  mood |-> "", before |-> "", input |-> emptyInput, recalled |-> << >>]

(* A.respond(input), a second after the call before it; recalled is what
   the recall inside the call returned.  Of the thought templates the first
   is taken. *)
EntityRespond(input) ==
  /\ soulTrace.ops < MaxSoulOps
  /\ now' = now + 1
  /\ LET r == Soul_respond(souls["A"], world, input, "user", "User", 1, now')
     IN  /\ souls' = [souls EXCEPT !["A"] = r.soul]
         /\ setWorld(r.w)
  /\ soulTrace' = [soulTrace EXCEPT
                     !.ops = @ + 1, !.responds = @ + 1, !.used = @ \cup {"A"},
                     !.last = [op |-> "respond", soul |-> "A", from |-> ""],
                     !.input = input,
                     !.recalled = relevantMemories(souls["A"], world, input, "User", now')]
  /\ UNCHANGED <<probe, moodVars, memorySystem, memTrace, persVars, platVars>>

(* A.withIdentity(identity) *)
WithIdentity(identity) ==
  /\ soulTrace.ops < MaxSoulOps
  /\ LET r == Soul_withIdentity(souls["A"], world, identity, now)
     IN  /\ souls' = [souls EXCEPT !["A"] = r.soul]
         /\ setWorld(r.w)
  /\ soulTrace' = [soulTrace EXCEPT !.ops = @ + 1, !.used = @ \cup {"A"},
                                    !.last = [op |-> "withIdentity", soul |-> "A",
                                              from |-> ""]]
  /\ UNCHANGED <<now, probe, moodVars, memorySystem, memTrace, persVars, platVars>>

NextEntity ==
  \/ \E input \in EntityInputs : EntityRespond(input)
  \/ Reflect("A")
  \/ \E m \in EntityMinutes, thinks \in BOOLEAN : SoulTimePassage("A", m, thinks, 1)
  \/ \E identity \in Identities : WithIdentity(identity)
  \/ WithMood("content")
  \/ WithPersonality(1)
  \/ WithEmpathy(50)

SpecEntity == InitEntity /\ [][NextEntity]_vars

(* C36: the socialBattery of an entity is never below the 80 it starts
   with, so the test socialBattery < 30 of getResponseStyle is never true *)
C36_BatteryNeverDrops ==
  \A s \in DOMAIN souls :
    /\ souls[s].moodEngine.emotionalState.socialBattery >= R(80)
    /\ ~(souls[s].moodEngine.emotionalState.socialBattery < R(30))

(* time has passed for an entity, which has then taken a negative input and
   reflected: the battery is at 100 *)
C36_Witness ==
  /\ soulTrace.ops = 3
  /\ soulTrace.responds = 1
  /\ reflected
  /\ soulTrace.input.negative > 0
  /\ souls["A"].moodEngine.emotionalState.socialBattery = R(100)


(* after a respond: the record of the input, stored before the record of the
   response *)
inputRecord == Len(heap) - 1
responded == soulTrace.last.op = "respond"

(* C37: in every respond call the record of the input is in the index at
   the recall, has importance >= 30 and holds the input in its content, and
   the recall returns at least one record, so that memories.length > 0 in
   generateResponse *)
C37_RecallNeverEmpty ==
  responded =>
    /\ heap[inputRecord].content = <<"User", "said", soulTrace.input.text>>
    /\ includes(heap[inputRecord].content, <<soulTrace.input.text>>)
    /\ heap[inputRecord].importance >= R(30)
    /\ MapHas(heap, souls["A"].memorySystem.memories, heap[inputRecord].id)
    /\ Len(soulTrace.recalled) > 0

(* the first respond of a new entity, with the empty input: the record of
   the input has importance 30 exactly and comes first in what is recalled *)
C37_Witness ==
  /\ responded
  /\ soulTrace.ops = 1
  /\ soulTrace.input = emptyInput
  /\ heap[inputRecord].importance = R(30)
  /\ soulTrace.recalled[1] = inputRecord


(*------------------------------ decay to rest ----------------------------*)
(* An engine is brought into some state by at most MaxDisturbances calls of
   any kind; from then on simulateTimePassage is called and nothing else,
   with 30 or 600 minutes or with a positive number of minutes too small to
   change a scalar.  The field quiet of the trace is 0 while the engine is
   disturbed and alternates between 1 and 2 with the calls afterwards. *)
RestMinutes == {30, 600}
rested ==
  [moodTrace EXCEPT ![1].last = "simulateTimePassage",
                    ![1].before = moodEngine[1].emotionalState.mood,
                    ![1].quiet = IF @ = 1 THEN 2 ELSE 1]

Rest(minutes) ==
  /\ moodEngine' = [moodEngine EXCEPT ![1] = MoodEngine_simulateTimePassage(@, minutes, now)]
  /\ moodTrace' = rested
  /\ UNCHANGED <<now, probe, memVars, persVars, soulVars, platVars>>

RestInstant ==
  /\ moodEngine' = [moodEngine EXCEPT ![1] = MoodEngine_simulateInstant(@, now)]
  /\ moodTrace' = rested
  /\ UNCHANGED <<now, probe, memVars, persVars, soulVars, platVars>>

WholeRest == \E m \in RestMinutes : Rest(m)
AnyRest == WholeRest \/ RestInstant

NextRest ==
  \/ \E st \in Stimuli : DisturbByStimulus(st[1], st[2])
  \/ \E m \in Minutes : DisturbByTime(m)
  \/ \E c \in BatteryChanges : DisturbByBattery(c)
  \/ WholeRest
  \/ RestInstant

(* simulateTimePassage with positive minutes keeps being called *)
SpecRest == InitBaseline /\ [][NextRest]_vars /\ WF_vars(AnyRest)

resting == moodTrace[1].quiet > 0
atRest ==
  /\ moodEngine[1].emotionalState.energy = 0
  /\ moodEngine[1].emotionalState.stress = 0
  /\ moodEngine[1].emotionalState.mood = "contemplative"
confidenceKept ==
  [][resting' => moodEngine'[1].emotionalState.confidence
                   = moodEngine[1].emotionalState.confidence]_vars

(* C38 as claimed: when only simulateTimePassage with positive minutes is
   called, energy and stress reach 0, the confidence never changes and the
   mood becomes contemplative and stays so *)
C38_DecayToRest == confidenceKept /\ <>[]atRest

(* C38, amended: they do when calls with at least one minute keep coming *)
C38_DecayToRestByWholeMinutes == confidenceKept /\ (WF_vars(WholeRest) => <>[]atRest)

(* an engine at rest that was frustrated and then melancholic on the way *)
C38_Witness ==
  /\ resting
  /\ atRest
  /\ moodTrace[1].calls = 2
  /\ \E i, j \in 1..Len(moodEngine[1].moodHistory) :
       /\ i < j
       /\ moodEngine[1].moodHistory[i].mood = "frustrated"
       /\ moodEngine[1].moodHistory[j].mood = "melancholic"


(* the records in the index of the entity's memory store *)
entityRecords ==
  {heap[souls["A"].memorySystem.memories[i]] :
     i \in 1..Len(souls["A"].memorySystem.memories)}

(* C39: every record in the memory store of an entity has importance in
   [30, 100] and emotional weight in [-80, 80]; the record of an input has
   importance in [30, 80] and a weight that is 0 or of magnitude 20 to 80 *)
C39_EntityRecordsInRange ==
  /\ \A m \in entityRecords :
       /\ R(30) <= m.importance /\ m.importance <= R(100)
       /\ -R(80) <= m.emotional_weight /\ m.emotional_weight <= R(80)
  /\ responded =>
       /\ R(30) <= heap[inputRecord].importance
       /\ heap[inputRecord].importance <= R(80)
       /\ \/ heap[inputRecord].emotional_weight = 0
          \/ distance(heap[inputRecord].emotional_weight, 0) \in R(20)..R(80)

(* after withIdentity and reflect an entity has taken a long input with all
   eight positive words: the record of the input has importance 80 and
   weight 80, next to the identity records of importance 100 and the
   reflection record of importance 60 *)
C39_Witness ==
  /\ responded
  /\ soulTrace.ops = 3
  /\ soulTrace.reflects = 1
  /\ soulTrace.input = gushingInput
  /\ heap[inputRecord].importance = R(80)
  /\ heap[inputRecord].emotional_weight = R(80)
  /\ Cardinality({m \in entityRecords : m.importance = R(100)}) = 2
  /\ \E m \in entityRecords : m.importance = R(60) /\ m.emotional_weight = R(10)

====
